---- MODULE Spec2Model ----
(***************************************************************************)
(* Block and table formatting contexts of the layout engine:               *)
(*   src/components/main/layout/block.rs          (BlockFlow)              *)
(*   src/components/main/layout/table_row.rs      (TableRowFlow)           *)
(*   src/components/main/layout/table_wrapper.rs  (TableWrapperFlow)       *)
(* The four layout passes (bubble_widths, assign_widths, assign_height,    *)
(* build_display_list) are modelled over small flow trees; the horizontal  *)
(* constraint solver compute_horiz is also modelled as a pure function.    *)
(* All lengths are integers (Au).                                          *)
(***************************************************************************)
EXTENDS Integers, Sequences, FiniteSets, TLC

VARIABLES
    tree,   \* the flow tree as built from the DOM: class, children, style (never written by a pass)
    base,   \* BaseFlow of every flow: position, abs_position, min/pref width, floats, flags
    box,    \* the Box of every flow that owns one: position, margin, border, padding
    flt,    \* FloatedBlockInfo of every floated flow
    cols,   \* the column vectors of table rows, table wrappers and inner tables
    pc,     \* the traversal driver: the pass that runs and the flow it visits next
    dl,     \* the display list and build_display_list's return values
    snap,   \* layout as it was when the first height pass finished
    failed, \* an assert! or fail! of the code was hit: the layout task is gone
    hz      \* arguments and result of one call of compute_horiz

vars == <<tree, base, box, flt, cols, pc, dl, snap, failed, hz>>

----------------------------------------------------------------------------
(* Bounds of the model *)

\* lengths in styles (widths, margins, borders, heights) range over 0..MaxAu
MaxAu == 2
\* available / screen widths range up to MaxAvail
MaxAvail == 5
\* the height pass runs at most MaxHeightRuns times over a tree
MaxHeightRuns == 2
\* the bubble_widths pass runs at most MaxBubbleRuns times over a tree
MaxBubbleRuns == 2

----------------------------------------------------------------------------
(* Au arithmetic, MaybeAuto and style values *)

\* a value computed once and used under a name
With(v, F(_)) == F(v)

Max(a, b) == IF a >= b THEN a ELSE b
Min(a, b) == IF a <= b THEN a ELSE b

\* i32 division truncates toward zero (b > 0)
AuDiv(a, b) == IF a >= 0 THEN a \div b ELSE 0 - ((0 - a) \div b)

\* Au::scale_by with the factor given in percent: f64 product cast back to i32
scale_by(a, pct) == AuDiv(a * pct, 100)

Auto == [auto |-> TRUE, v |-> 0]
Specified(x) == [auto |-> FALSE, v |-> x]

specified_or_zero(m) == IF m.auto THEN 0 ELSE m.v
specified_or_default(m, d) == IF m.auto THEN d ELSE m.v

\* computed style values: length, percentage, auto, none
LP_Length(x) == [k |-> "len", v |-> x]
LP_Percentage(p) == [k |-> "pct", v |-> p]
LPA_Auto == [k |-> "auto", v |-> 0]
LPN_None == [k |-> "none", v |-> 0]

\* MaybeAuto::from_style
from_style(lpa, containing) ==
    CASE lpa.k = "auto" -> Auto
      [] lpa.k = "pct"  -> Specified(scale_by(containing, lpa.v))
      [] OTHER          -> Specified(lpa.v)

\* model::specified_or_none: Option<Au> as a record
specified_or_none(lpn, containing) ==
    CASE lpn.k = "none" -> [some |-> FALSE, v |-> 0]
      [] lpn.k = "pct"  -> [some |-> TRUE, v |-> scale_by(containing, lpn.v)]
      [] OTHER          -> [some |-> TRUE, v |-> lpn.v]

\* model::specified
specified(lp, containing) ==
    IF lp.k = "pct" THEN scale_by(containing, lp.v) ELSE lp.v

----------------------------------------------------------------------------
(* The horizontal constraint solver, CSS 2.1 section 10.3.3 *)

\* a faulty variant: the over-constrained case keeps the specified right margin
compute_horiz_keeps_right(width, left_margin, right_margin, available_width) ==
    LET left == specified_or_zero(left_margin)
        right == specified_or_zero(right_margin)
        over == ~width.auto /\ (left + right + width.v) > available_width
        lm == IF over THEN Specified(left) ELSE left_margin
        rm == IF over THEN Specified(right) ELSE right_margin
        lwr ==
            CASE ~lm.auto /\ ~width.auto /\ ~rm.auto ->
                    <<lm.v, width.v, rm.v>>
              [] lm.auto /\ ~width.auto /\ ~rm.auto ->
                    <<available_width - (width.v + rm.v), width.v, rm.v>>
              [] ~lm.auto /\ width.auto /\ ~rm.auto ->
                    <<lm.v, available_width - (lm.v + rm.v), rm.v>>
              [] ~lm.auto /\ ~width.auto /\ rm.auto ->
                    <<lm.v, width.v, available_width - (lm.v + width.v)>>
              [] lm.auto /\ width.auto /\ ~rm.auto ->
                    <<0, available_width - rm.v, rm.v>>
              [] ~lm.auto /\ width.auto /\ rm.auto ->
                    <<lm.v, available_width - lm.v, 0>>
              [] lm.auto /\ width.auto /\ rm.auto ->
                    <<0, available_width, 0>>
              [] lm.auto /\ ~width.auto /\ rm.auto ->
                    LET margin == scale_by(available_width - width.v, 50)
                    IN  <<margin, width.v, margin>>
    IN  <<lwr[2], lwr[1], lwr[3]>>

\* a faulty variant: two auto margins are not centred, the right one takes all free width
compute_horiz_no_centring(width, left_margin, right_margin, available_width) ==
    LET left == specified_or_zero(left_margin)
        right == specified_or_zero(right_margin)
        over == ~width.auto /\ (left + right + width.v) > available_width
        lm == IF over THEN Specified(left) ELSE left_margin
        rm == IF over THEN Specified(right) ELSE right_margin
        lwr ==
            CASE ~lm.auto /\ ~width.auto /\ ~rm.auto ->
                    <<lm.v, width.v, available_width - (lm.v + width.v)>>
              [] lm.auto /\ ~width.auto /\ ~rm.auto ->
                    <<available_width - (width.v + rm.v), width.v, rm.v>>
              [] ~lm.auto /\ width.auto /\ ~rm.auto ->
                    <<lm.v, available_width - (lm.v + rm.v), rm.v>>
              [] ~lm.auto /\ ~width.auto /\ rm.auto ->
                    <<lm.v, width.v, available_width - (lm.v + width.v)>>
              [] lm.auto /\ width.auto /\ ~rm.auto ->
                    <<0, available_width - rm.v, rm.v>>
              [] ~lm.auto /\ width.auto /\ rm.auto ->
                    <<lm.v, available_width - lm.v, 0>>
              [] lm.auto /\ width.auto /\ rm.auto ->
                    <<0, available_width, 0>>
              [] lm.auto /\ ~width.auto /\ rm.auto ->
                    <<0, width.v, available_width - width.v>>
    IN  <<lwr[2], lwr[1], lwr[3]>>

\* BlockFlow::compute_horiz; returns <<width, margin_left, margin_right>>
compute_horiz(width, left_margin, right_margin, available_width) ==
    LET left == specified_or_zero(left_margin)
        right == specified_or_zero(right_margin)
        over == ~width.auto /\ (left + right + width.v) > available_width
        lm == IF over THEN Specified(left) ELSE left_margin
        rm == IF over THEN Specified(right) ELSE right_margin
        lwr ==
            CASE ~lm.auto /\ ~width.auto /\ ~rm.auto ->
                    <<lm.v, width.v, available_width - (lm.v + width.v)>>
              [] lm.auto /\ ~width.auto /\ ~rm.auto ->
                    <<available_width - (width.v + rm.v), width.v, rm.v>>
              [] ~lm.auto /\ width.auto /\ ~rm.auto ->
                    <<lm.v, available_width - (lm.v + rm.v), rm.v>>
              [] ~lm.auto /\ ~width.auto /\ rm.auto ->
                    <<lm.v, width.v, available_width - (lm.v + width.v)>>
              [] lm.auto /\ width.auto /\ ~rm.auto ->
                    <<0, available_width - rm.v, rm.v>>
              [] ~lm.auto /\ width.auto /\ rm.auto ->
                    <<lm.v, available_width - lm.v, 0>>
              [] lm.auto /\ width.auto /\ rm.auto ->
                    <<0, available_width, 0>>
              [] lm.auto /\ ~width.auto /\ rm.auto ->
                    LET margin == scale_by(available_width - width.v, 50)
                    IN  <<margin, width.v, margin>>
    IN  <<lwr[2], lwr[1], lwr[3]>>

\* TableWrapperFlow::compute_horiz; returns <<width, margin_left, margin_right>>
tw_compute_horiz(width, left_margin, right_margin, available_width) ==
    LET left == specified_or_zero(left_margin)
        right == specified_or_zero(right_margin)
        over == ~width.auto /\ (left + right + width.v) > available_width
        lm == IF over THEN Specified(left) ELSE left_margin
        rm == IF over THEN Specified(right) ELSE right_margin
        lwr ==
            CASE ~lm.auto /\ ~width.auto /\ ~rm.auto ->
                    <<lm.v, width.v, available_width - (lm.v + width.v)>>
              [] lm.auto /\ ~width.auto /\ ~rm.auto ->
                    <<available_width - (width.v + rm.v), width.v, rm.v>>
              [] ~lm.auto /\ width.auto /\ ~rm.auto ->
                    <<lm.v, available_width - (lm.v + rm.v), rm.v>>
              [] ~lm.auto /\ ~width.auto /\ rm.auto ->
                    <<lm.v, width.v, available_width - (lm.v + width.v)>>
              [] lm.auto /\ width.auto /\ ~rm.auto ->
                    <<0, available_width - rm.v, rm.v>>
              [] ~lm.auto /\ width.auto /\ rm.auto ->
                    <<lm.v, available_width - lm.v, 0>>
              [] lm.auto /\ width.auto /\ rm.auto ->
                    <<0, available_width, 0>>
              [] lm.auto /\ ~width.auto /\ rm.auto ->
                    LET margin == scale_by(available_width - width.v, 50)
                    IN  <<margin, width.v, margin>>
    IN  <<lwr[2], lwr[1], lwr[3]>>

\* a faulty variant: min-width is applied before max-width, so max-width wins
compute_block_margins_max_last(style, remaining_width, available_width) ==
    LET width == from_style(style.width, remaining_width)
        ml == from_style(style.margin_left, remaining_width)
        mr == from_style(style.margin_right, remaining_width)
        r1 == compute_horiz(width, ml, mr, available_width)
        mn == specified(style.min_width, remaining_width)
        r2 == IF mn > r1[1] THEN compute_horiz(Specified(mn), ml, mr, available_width) ELSE r1
        mx == specified_or_none(style.max_width, remaining_width)
    IN  IF mx.some /\ mx.v < r2[1]
        THEN compute_horiz(Specified(mx.v), ml, mr, available_width)
        ELSE r2

\* BlockFlow::compute_block_margins; returns <<width, margin_left, margin_right>>
compute_block_margins(style, remaining_width, available_width) ==
    LET width == from_style(style.width, remaining_width)
        maybe_margin_left == from_style(style.margin_left, remaining_width)
        maybe_margin_right == from_style(style.margin_right, remaining_width)
        r1 == compute_horiz(width, maybe_margin_left, maybe_margin_right, available_width)
        mx == specified_or_none(style.max_width, remaining_width)
        r2 == IF mx.some /\ mx.v < r1[1]
              THEN compute_horiz(Specified(mx.v), maybe_margin_left, maybe_margin_right,
                                 available_width)
              ELSE r1
        computed_min_width == specified(style.min_width, remaining_width)
    IN  IF computed_min_width > r2[1]
        THEN compute_horiz(Specified(computed_min_width), maybe_margin_left,
                           maybe_margin_right, available_width)
        ELSE r2

\* TableWrapperFlow::compute_table_margins
compute_table_margins(style, remaining_width, available_width) ==
    LET width == from_style(style.width, remaining_width)
        maybe_margin_left == from_style(style.margin_left, remaining_width)
        maybe_margin_right == from_style(style.margin_right, remaining_width)
        r1 == tw_compute_horiz(width, maybe_margin_left, maybe_margin_right, available_width)
        mx == specified_or_none(style.max_width, remaining_width)
        r2 == IF mx.some /\ mx.v < r1[1]
              THEN tw_compute_horiz(Specified(mx.v), maybe_margin_left, maybe_margin_right,
                                    available_width)
              ELSE r1
        computed_min_width == specified(style.min_width, remaining_width)
    IN  IF computed_min_width > r2[1]
        THEN tw_compute_horiz(Specified(computed_min_width), maybe_margin_left,
                              maybe_margin_right, available_width)
        ELSE r2

\* BlockFlow::compute_float_margins (TableWrapperFlow's is the same text)
compute_float_margins_fill(style, min_width, pref_width, remaining_width) ==
    LET margin_left == specified_or_zero(from_style(style.margin_left, remaining_width))
        margin_right == specified_or_zero(from_style(style.margin_right, remaining_width))
        width == specified_or_default(from_style(style.width, remaining_width),
                                      remaining_width)
    IN  <<width, margin_left, margin_right>>

compute_float_margins(style, min_width, pref_width, remaining_width) ==
    LET margin_left == specified_or_zero(from_style(style.margin_left, remaining_width))
        margin_right == specified_or_zero(from_style(style.margin_right, remaining_width))
        shrink_to_fit == Min(pref_width, Max(min_width, remaining_width))
        width == specified_or_default(from_style(style.width, remaining_width), shrink_to_fit)
    IN  <<width, margin_left, margin_right>>

----------------------------------------------------------------------------
(* Sequences *)

Range(s) == {s[i] : i \in 1..Len(s)}

RECURSIVE SumSeq(_)
SumSeq(s) == IF s = <<>> THEN 0 ELSE s[1] + SumSeq(Tail(s))

RECURSIVE MaxSeq(_)
\* the largest of 0 and the elements: the loops start from Au(0)
MaxSeq(s) == IF s = <<>> THEN 0 ELSE Max(s[1], MaxSeq(Tail(s)))

MapSeq(s, F(_)) == [i \in 1..Len(s) |-> F(s[i])]

RECURSIVE Concat(_)
Concat(ss) == IF ss = <<>> THEN <<>> ELSE ss[1] \o Concat(Tail(ss))

----------------------------------------------------------------------------
(* The flow tree *)

Nodes == 1..Len(tree.nodes)
T(n) == tree.nodes[n]
Kids(n) == tree.nodes[n].kids
is_float(n) == tree.nodes[n].float # "none"
HasBox(n) == tree.nodes[n].has_box

RECURSIVE PostOrderOf(_, _)
\* the order of a bottom-up traversal of the subtree of n
PostOrderOf(nodes, n) ==
    Concat([i \in 1..Len(nodes[n].kids) |-> PostOrderOf(nodes, nodes[n].kids[i])]) \o <<n>>

RECURSIVE PreOrderOf(_, _)
\* the order of a top-down traversal of the subtree of n
PreOrderOf(nodes, n) ==
    <<n>> \o Concat([i \in 1..Len(nodes[n].kids) |-> PreOrderOf(nodes, nodes[n].kids[i])])

Descendants(n) == Range(PreOrderOf(tree.nodes, n)) \ {n}

Zero4 == [top |-> 0, right |-> 0, bottom |-> 0, left |-> 0]

\* FloatContext: Invalid, or the floats placed so far seen through an offset
\* (floats: bounds and side of each float, in the frame the offset leads back to)
Invalid == [valid |-> FALSE, cap |-> 0, offx |-> 0, offy |-> 0, floats |-> <<>>]
\* FloatContext::new
FloatContext_new(n) == [valid |-> TRUE, cap |-> n, offx |-> 0, offy |-> 0, floats |-> <<>>]

\* BaseFlow::new
BaseFlow_new ==
    [x |-> 0, y |-> 0, w |-> 0, h |-> 0, absx |-> 0, absy |-> 0,
     min_width |-> 0, pref_width |-> 0,
     floats_in |-> Invalid, floats_out |-> Invalid,
     num_floats |-> 0, inorder |-> FALSE]

\* Box::new: position and all offsets zero
Box_new == [x |-> 0, y |-> 0, w |-> 0, h |-> 0,
            margin |-> Zero4, border |-> Zero4, padding |-> Zero4]

\* FloatedBlockInfo::new
FloatedBlockInfo_new ==
    [containing_width |-> 0, rel_x |-> 0, rel_y |-> 0, floated_children |-> 0]

\* the column vectors of TableRowFlow::new / TableWrapperFlow::new, and those of the
\* collaborating flows: TableColGroupFlow.min_widths, TableFlow.cell_min_widths
Cols_new == [col_widths |-> <<>>, col_min_widths |-> <<>>, col_pref_widths |-> <<>>,
             min_widths |-> <<>>, cell_min_widths |-> <<>>]

\* the layout as one value; the handlers map a layout to a layout
Cur == [base |-> base, box |-> box, flt |-> flt, cols |-> cols, failed |-> failed]

----------------------------------------------------------------------------
(* Pass 1: bubble_widths, bottom-up *)

\* a faulty variant: the box's preferred width is added to min_width and its minimum to pref_width
BlockFlow_bubble_widths_swapped(L, n) ==
    LET kids == Kids(n)
        min0 == MaxSeq([i \in 1..Len(kids) |-> L.base[kids[i]].min_width])
        pref0 == MaxSeq([i \in 1..Len(kids) |-> L.base[kids[i]].pref_width])
        num_floats == SumSeq([i \in 1..Len(kids) |-> L.base[kids[i]].num_floats])
        L1 == IF is_float(n)
              THEN [L EXCEPT !.base[n].num_floats = 1,
                             !.flt[n].floated_children = num_floats]
              ELSE [L EXCEPT !.base[n].num_floats = num_floats]
        L2 == IF HasBox(n) THEN [L1 EXCEPT !.box[n].border = T(n).style.border] ELSE L1
        this_minimum_width == IF HasBox(n) THEN T(n).box_min ELSE 0
        this_preferred_width == IF HasBox(n) THEN T(n).box_pref ELSE 0
    IN  [L2 EXCEPT !.base[n].min_width = min0 + this_preferred_width,
                   !.base[n].pref_width = pref0 + this_minimum_width]

\* BlockFlow::bubble_widths
BlockFlow_bubble_widths(L, n) ==
    LET kids == Kids(n)
        min0 == MaxSeq([i \in 1..Len(kids) |-> L.base[kids[i]].min_width])
        pref0 == MaxSeq([i \in 1..Len(kids) |-> L.base[kids[i]].pref_width])
        num_floats == SumSeq([i \in 1..Len(kids) |-> L.base[kids[i]].num_floats])
        L1 == IF is_float(n)
              THEN [L EXCEPT !.base[n].num_floats = 1,
                             !.flt[n].floated_children = num_floats]
              ELSE [L EXCEPT !.base[n].num_floats = num_floats]
        \* compute_borders_if_necessary, then minimum_and_preferred_widths
        L2 == IF HasBox(n) THEN [L1 EXCEPT !.box[n].border = T(n).style.border] ELSE L1
        this_minimum_width == IF HasBox(n) THEN T(n).box_min ELSE 0
        this_preferred_width == IF HasBox(n) THEN T(n).box_pref ELSE 0
    IN  [L2 EXCEPT !.base[n].min_width = min0 + this_minimum_width,
                   !.base[n].pref_width = pref0 + this_preferred_width]

\* TableRowFlow::bubble_widths: the three vectors are pushed onto, never cleared
TableRowFlow_bubble_widths(L, n) ==
    LET kids == Kids(n)
        boxed == SelectSeq(kids, HasBox)
        pushed_widths ==
            [i \in 1..Len(boxed) |->
                specified_or_zero(from_style(T(boxed[i]).style.width, 0))]
        mins == [i \in 1..Len(kids) |-> L.base[kids[i]].min_width]
        prefs == [i \in 1..Len(kids) |-> L.base[kids[i]].pref_width]
        min_width == SumSeq(mins)
        pref_width == SumSeq(prefs)
        num_floats == SumSeq([i \in 1..Len(kids) |-> L.base[kids[i]].num_floats])
        L1 == [L EXCEPT !.cols[n].col_widths = @ \o pushed_widths,
                        !.cols[n].col_min_widths = @ \o mins,
                        !.cols[n].col_pref_widths = @ \o prefs]
        L2 == IF is_float(n)
              THEN [L1 EXCEPT !.base[n].num_floats = 1,
                              !.flt[n].floated_children = num_floats]
              ELSE [L1 EXCEPT !.base[n].num_floats = num_floats]
    IN  [L2 EXCEPT !.base[n].min_width = min_width,
                   !.base[n].pref_width = Max(min_width, pref_width)]

\* TableWrapperFlow::from_box / new: is_fixed_layout
is_fixed_layout(n) == HasBox(n) /\ T(n).style.table_fixed

RECURSIVE tw_bubble_kids(_, _, _, _)
\* the loop over the children of TableWrapperFlow::bubble_widths;
\* acc = [col_widths, min_width, pref_width]
tw_bubble_kids(L, n, i, acc) ==
    IF i > Len(Kids(n)) THEN acc
    ELSE LET kid == Kids(n)[i]
             cls == T(kid).class
         IN  IF cls = "table_colgroup"
             THEN tw_bubble_kids(L, n, i + 1,
                    [acc EXCEPT !.col_widths = @ \o L.cols[kid].min_widths])
             ELSE IF cls = "table"
             THEN LET child_widths == L.cols[kid].col_widths
                      donated ==
                          IF is_fixed_layout(n)
                          THEN [j \in 1..Len(acc.col_widths) |->
                                  IF j <= Len(child_widths) /\ acc.col_widths[j] = 0
                                  THEN child_widths[j] ELSE acc.col_widths[j]]
                          ELSE acc.col_widths
                      num_child_cells == Len(L.cols[kid].cell_min_widths)
                      num_col_cells == Len(donated)
                      diff == IF num_child_cells > num_col_cells
                              THEN num_child_cells - num_col_cells ELSE 0
                  IN  tw_bubble_kids(L, n, i + 1,
                        [acc EXCEPT !.col_widths = donated \o [j \in 1..diff |-> 0]])
             ELSE tw_bubble_kids(L, n, i + 1,
                    [acc EXCEPT !.min_width = Max(@, L.base[kid].min_width),
                                !.pref_width = Max(@, L.base[kid].pref_width)])

\* TableWrapperFlow::bubble_widths (num_floats is not written)
TableWrapperFlow_bubble_widths(L, n) ==
    LET acc == tw_bubble_kids(L, n, 1,
                  [col_widths |-> L.cols[n].col_widths, min_width |-> 0, pref_width |-> 0])
        L1 == [L EXCEPT !.cols[n].col_widths = acc.col_widths]
        L2 == IF HasBox(n) THEN [L1 EXCEPT !.box[n].border = T(n).style.border] ELSE L1
        this_minimum_width == IF HasBox(n) THEN T(n).box_min ELSE 0
        this_preferred_width == IF HasBox(n) THEN T(n).box_pref ELSE 0
    IN  [L2 EXCEPT !.base[n].min_width = acc.min_width + this_minimum_width,
                   !.base[n].pref_width = acc.pref_width + this_preferred_width]

\* bubble_widths of the collaborating flows (inline, table cell, inner table, column
\* group): they supply their intrinsic widths and their column vectors
Collaborator_bubble_widths(L, n) ==
    [L EXCEPT !.base[n].min_width = T(n).leaf.min_width,
              !.base[n].pref_width = T(n).leaf.pref_width,
              !.base[n].num_floats = 0,
              !.cols[n].col_widths = T(n).leaf.col_widths,
              !.cols[n].min_widths = T(n).leaf.col_widths,
              !.cols[n].cell_min_widths = T(n).leaf.cell_min_widths]

----------------------------------------------------------------------------
(* Box geometry helpers *)

\* Box::noncontent_top and friends: margin + border + padding of one side
\* (written out in table_wrapper.rs and table_row.rs, called by name in block.rs)
noncontent_top(b) == b.margin.top + b.border.top + b.padding.top
noncontent_bottom(b) == b.margin.bottom + b.border.bottom + b.padding.bottom
noncontent_left(b) == b.margin.left + b.border.left + b.padding.left
noncontent_right(b) == b.margin.right + b.border.right + b.padding.right
noncontent_width(b) == noncontent_left(b) + noncontent_right(b)

\* Box::offset: from the margin edge to the content edge, on the left
offset(b) == b.margin.left + b.border.left + b.padding.left

\* Box::get_x_coord_and_new_width_if_fixed; the identity unless the flow is fixed,
\* then the offsets left/right of the style (0 = not set) against the screen
get_x_coord_and_new_width_if_fixed(n, screen_width, width, x, fixed) ==
    IF ~fixed THEN <<x, width>>
    ELSE LET o == T(n).style.offsets
         IN  CASE o.left = 0 /\ o.right = 0 -> <<x, width>>
               [] o.left = 0 /\ o.right # 0 -> <<screen_width - o.right - width, width>>
               [] o.left # 0 /\ o.right = 0 -> <<o.left, width>>
               [] OTHER -> <<o.left,
                             IF T(n).style.width.k = "auto"
                             THEN screen_width - o.left - o.right ELSE width>>

\* Box::get_y_coord_and_new_height_if_fixed
get_y_coord_and_new_height_if_fixed(n, screen_height, height, y, fixed) ==
    IF ~fixed THEN <<y, height>>
    ELSE LET o == T(n).style.offsets
         IN  CASE o.top = 0 /\ o.bottom = 0 -> <<y, height>>
               [] o.top = 0 /\ o.bottom # 0 -> <<screen_height - o.bottom - height, height>>
               [] o.top # 0 /\ o.bottom = 0 -> <<o.top, height>>
               [] OTHER -> <<o.top,
                             IF T(n).style.height.k = "auto"
                             THEN screen_height - o.top - o.bottom ELSE height>>

----------------------------------------------------------------------------
(* Pass 2: assign_widths, top-down *)

\* BlockFlow::compute_padding_and_margin_if_exists with has_padding = has_margin = true;
\* returns the layout with padding and margin written, and the used width
compute_padding_and_margin_if_exists(L, n, remaining_width) ==
    LET style == T(n).style
        \* box_.compute_padding
        L1 == [L EXCEPT !.box[n].padding = style.padding]
        \* margins are still those of the box: 0 on a freshly built tree
        available_width == remaining_width - noncontent_width(L1.box[n])
        margin_top == specified_or_zero(from_style(style.margin_top, remaining_width))
        margin_bottom == specified_or_zero(from_style(style.margin_bottom, remaining_width))
        wlr == IF is_float(n)
               THEN compute_float_margins(style, L.base[n].min_width, L.base[n].pref_width,
                                          remaining_width)
               ELSE compute_block_margins(style, remaining_width, available_width)
    IN  [L |-> [L1 EXCEPT !.box[n].margin =
                    [top |-> margin_top, right |-> wlr[3],
                     bottom |-> margin_bottom, left |-> wlr[2]]],
         width |-> wlr[1]]

RECURSIVE propagate_kids_keeps_floats(_, _, _, _, _, _)
\* a faulty variant: the floats_in of a child that is not in order is left as it was
propagate_kids_keeps_floats(L, n, i, x_offset, remaining_width, has_inorder_children) ==
    IF i > Len(Kids(n)) THEN L
    ELSE propagate_kids_keeps_floats(
             [L EXCEPT !.base[Kids(n)[i]].x = x_offset,
                       !.base[Kids(n)[i]].w = remaining_width,
                       !.base[Kids(n)[i]].inorder = has_inorder_children],
             n, i + 1, x_offset, remaining_width, has_inorder_children)

RECURSIVE propagate_kids(_, _, _, _, _, _)
propagate_kids(L, n, i, x_offset, remaining_width, has_inorder_children) ==
    IF i > Len(Kids(n)) THEN L
    ELSE LET kid == Kids(n)[i]
             L1 == [L EXCEPT !.base[kid].x = x_offset,
                             !.base[kid].w = remaining_width,
                             !.base[kid].inorder = has_inorder_children]
             L2 == IF ~has_inorder_children
                   THEN [L1 EXCEPT !.base[kid].floats_in = FloatContext_new(0)]
                   ELSE L1
         IN  propagate_kids(L2, n, i + 1, x_offset, remaining_width, has_inorder_children)

\* a faulty variant: the children are in order only if the parent is, whatever its floats
propagate_assigned_width_ignores_floats(L, n, x_offset, remaining_width) ==
    propagate_kids(L, n, 1, x_offset, remaining_width, ~is_float(n) /\ L.base[n].inorder)

\* BlockFlow::propagate_assigned_width_to_children, called with opt_col_widths = None
propagate_assigned_width_to_children(L, n, x_offset, remaining_width) ==
    LET has_inorder_children ==
            IF is_float(n) THEN L.base[n].num_floats > 0
            ELSE L.base[n].inorder \/ L.base[n].num_floats > 0
    IN  propagate_kids(L, n, 1, x_offset, remaining_width, has_inorder_children)

\* BlockFlow::set_containing_width_if_float
set_containing_width_if_float(L, n, remaining_width) ==
    IF is_float(n)
    THEN [L EXCEPT !.flt[n].containing_width = remaining_width,
                   !.base[n].inorder = FALSE]
    ELSE L

\* BlockFlow::assign_widths, the part after compute_padding_and_margin_if_exists:
\* L2 is the layout before the box was looked at, r what that call returned
assign_widths_box(L2, n, r) ==
    LET b == r.L.box[n]
        xw == get_x_coord_and_new_width_if_fixed(n, tree.screen.width, r.width, offset(b),
                                                 T(n).is_fixed)
        x_offset == IF ~HasBox(n) THEN 0
                    ELSE IF T(n).is_fixed THEN xw[1] + b.padding.left ELSE xw[1]
        remaining_width == IF HasBox(n) THEN xw[2] ELSE L2.base[n].w
        border_x == IF T(n).is_fixed THEN xw[1] + b.margin.left ELSE b.margin.left
        padding_and_borders == b.padding.left + b.padding.right +
                               b.border.left + b.border.right
        \* set_box_x_and_width
        L3 == IF HasBox(n)
              THEN [r.L EXCEPT !.box[n].x = border_x,
                               !.box[n].w = remaining_width + padding_and_borders,
                               !.base[n].w = IF is_float(n) THEN remaining_width ELSE @]
              ELSE [L2 EXCEPT !.base[n].w = IF is_float(n) THEN remaining_width ELSE @]
    IN  propagate_assigned_width_to_children(L3, n, x_offset, remaining_width)

\* BlockFlow::assign_widths
BlockFlow_assign_widths(L, n) ==
    LET L1 == IF T(n).is_root
              THEN [L EXCEPT !.base[n].x = 0, !.base[n].y = 0,
                             !.base[n].w = tree.screen.width,
                             !.base[n].floats_in = FloatContext_new(L.base[n].num_floats),
                             !.base[n].inorder = FALSE]
              ELSE L
        remaining_width == IF T(n).is_root THEN tree.screen.width ELSE L.base[n].w
    IN  With(set_containing_width_if_float(L1, n, remaining_width),
             LAMBDA L2 : assign_widths_box(
                 L2, n, compute_padding_and_margin_if_exists(L2, n, remaining_width)))

RECURSIVE row_assign_kids(_, _, _, _, _)
\* the loop over the cells of TableRowFlow::assign_widths; col_widths[i] past the end
\* of the vector is an index out of bounds
row_assign_kids(L, n, i, x_offset, has_inorder_children) ==
    IF i > Len(Kids(n)) THEN L
    ELSE IF i > Len(L.cols[n].col_widths) THEN [L EXCEPT !.failed = TRUE]
    ELSE LET kid == Kids(n)[i]
             L1 == [L EXCEPT !.base[kid].x = x_offset,
                             !.base[kid].w = L.cols[n].col_widths[i],
                             !.base[kid].inorder = has_inorder_children]
             L2 == IF ~has_inorder_children
                   THEN [L1 EXCEPT !.base[kid].floats_in = FloatContext_new(0)]
                   ELSE L1
         IN  row_assign_kids(L2, n, i + 1, x_offset + L.cols[n].col_widths[i],
                             has_inorder_children)

\* TableRowFlow::assign_widths
TableRowFlow_assign_widths(L, n) ==
    LET width == L.base[n].w
        xw == get_x_coord_and_new_width_if_fixed(n, tree.screen.width, width,
                                                 offset(L.box[n]), T(n).is_fixed)
        x_offset == IF HasBox(n) THEN xw[1] ELSE 0
        remaining_width == IF HasBox(n) THEN xw[2] ELSE width
        L1 == IF is_float(n)
              THEN [L EXCEPT !.flt[n].containing_width = width,
                             !.base[n].inorder = FALSE,
                             !.base[n].w = remaining_width]
              ELSE L
        L2 == IF HasBox(n)
              THEN [L1 EXCEPT !.box[n].x = IF T(n).is_fixed THEN x_offset ELSE @,
                              !.box[n].w = remaining_width]
              ELSE L1
        has_inorder_children ==
            IF is_float(n) THEN L.base[n].num_floats > 0
            ELSE L.base[n].inorder \/ L.base[n].num_floats > 0
    IN  row_assign_kids(L2, n, 1, x_offset, has_inorder_children)

\* a faulty variant: the free width is divided among all columns, not only the zero ones
tw_distribute_all_columns(col_widths, remaining_width) ==
    LET total == Len(col_widths)
        fix_cell_width == SumSeq(col_widths)
        default_cell_width ==
            IF total > 0 THEN AuDiv(remaining_width - fix_cell_width, total) ELSE 0
    IN  [i \in 1..Len(col_widths) |->
            IF col_widths[i] = 0 THEN default_cell_width ELSE col_widths[i]]

\* TableWrapperFlow::assign_widths, the column distribution: the vector given to the
\* inner table
tw_distribute(col_widths, remaining_width) ==
    LET no_width_cnt == Cardinality({i \in 1..Len(col_widths) : col_widths[i] = 0})
        fix_cell_width == SumSeq(SelectSeq(col_widths, LAMBDA c : c # 0))
        default_cell_width ==
            IF no_width_cnt > 0
            THEN AuDiv(remaining_width - fix_cell_width, no_width_cnt)
            ELSE 0
    IN  [i \in 1..Len(col_widths) |->
            IF col_widths[i] = 0 THEN default_cell_width ELSE col_widths[i]]

RECURSIVE tw_assign_kids(_, _, _, _, _, _)
\* the loop over the children of TableWrapperFlow::assign_widths
tw_assign_kids(L, n, i, x_offset, remaining_width, has_inorder_children) ==
    IF i > Len(Kids(n)) THEN L
    ELSE LET kid == Kids(n)[i]
             L0 == IF T(kid).class = "table"
                   THEN [L EXCEPT !.cols[kid].col_widths =
                            tw_distribute(L.cols[n].col_widths, remaining_width)]
                   ELSE L
             L1 == [L0 EXCEPT !.base[kid].x = x_offset,
                              !.base[kid].w = remaining_width,
                              !.base[kid].inorder = has_inorder_children]
             L2 == IF ~has_inorder_children
                   THEN [L1 EXCEPT !.base[kid].floats_in = FloatContext_new(0)]
                   ELSE L1
         IN  tw_assign_kids(L2, n, i + 1, x_offset, remaining_width, has_inorder_children)

\* TableWrapperFlow::assign_widths
TableWrapperFlow_assign_widths(L, n) ==
    LET style == T(n).style
        remaining_width0 == L.base[n].w
        has_inorder_children ==
            IF is_float(n) THEN L.base[n].num_floats > 0
            ELSE L.base[n].inorder \/ L.base[n].num_floats > 0
    IN  IF ~HasBox(n)
        THEN tw_assign_kids(L, n, 1, 0, remaining_width0, has_inorder_children)
        ELSE
        With([L EXCEPT !.box[n].padding = style.padding], LAMBDA L1 :
        With(IF is_float(n)
             THEN compute_float_margins(style, L.base[n].min_width, L.base[n].pref_width,
                                        remaining_width0)
             ELSE compute_table_margins(style, remaining_width0,
                                        remaining_width0 - noncontent_width(L1.box[n])),
             LAMBDA wlr :
        With([L1 EXCEPT !.box[n].margin =
                 [top |-> specified_or_zero(from_style(style.margin_top, remaining_width0)),
                  right |-> wlr[3],
                  bottom |-> specified_or_zero(from_style(style.margin_bottom,
                                                          remaining_width0)),
                  left |-> wlr[2]]], LAMBDA L2 :
        With(L2.box[n], LAMBDA b :
            tw_assign_kids(
                [L2 EXCEPT !.box[n].x = b.margin.left,
                           !.box[n].w = wlr[1] + b.padding.left + b.padding.right +
                                        b.border.left + b.border.right],
                n, 1, offset(b), wlr[1], has_inorder_children)))))

----------------------------------------------------------------------------
(* FloatContext: the floats placed so far. A float is [x, y, w, h, left]; the offset
   of the context leads from the frame of the flow that holds it to the frame the
   floats were recorded in. *)

\* FloatContext::translate
translate(fc, dx, dy) == [fc EXCEPT !.offx = @ + dx, !.offy = @ + dy]

\* FloatContext::clearance: the lowest bottom edge of the floats on the cleared side
clearance(fc, clear) ==
    MaxSeq([i \in 1..Len(fc.floats) |->
        LET f == fc.floats[i]
        IN  IF clear = "both" \/ (clear = "left" /\ f.left) \/ (clear = "right" /\ ~f.left)
            THEN fc.offy + f.y + f.h ELSE 0])

RECURSIVE available_fold(_, _, _, _, _)
\* the loop of FloatContext::available_rect: the right-most left float and the
\* left-most right float that overlap the band [top, top + height)
available_fold(floats, i, top, height, acc) ==
    IF i > Len(floats) THEN acc
    ELSE LET f == floats[i]
             overlaps == f.y + f.h > top /\ f.y < top + height
         IN  IF f.left /\ f.x + f.w > acc.max_left /\ overlaps
             THEN available_fold(floats, i + 1, top, height,
                    [acc EXCEPT !.max_left = f.x + f.w, !.l = TRUE,
                                !.l_top = f.y, !.l_bottom = f.y + f.h])
             ELSE IF ~f.left /\ f.x < acc.min_right /\ overlaps
             THEN available_fold(floats, i + 1, top, height,
                    [acc EXCEPT !.min_right = f.x, !.r = TRUE,
                                !.r_top = f.y, !.r_bottom = f.y + f.h])
             ELSE available_fold(floats, i + 1, top, height, acc)

\* FloatContext::available_rect: none when no float is in the way, else the free
\* rectangle between the floats at this height
available_rect(fc, top0, height, max_x) ==
    LET top == top0 - fc.offy
        acc == available_fold(fc.floats, 1, top, height,
                  [max_left |-> 0 - fc.offx, min_right |-> max_x - fc.offx,
                   l |-> FALSE, l_top |-> 0, l_bottom |-> 0,
                   r |-> FALSE, r_top |-> 0, r_bottom |-> 0])
        t == CASE acc.l /\ acc.r -> Max(Max(top, acc.r_top), Max(top, acc.l_top))
               [] acc.l -> Max(top, acc.l_top)
               [] OTHER -> Max(top, acc.r_top)
        b == CASE acc.l /\ acc.r -> Min(acc.r_bottom, acc.l_bottom)
               [] acc.l -> acc.l_bottom
               [] OTHER -> acc.r_bottom
    IN  IF ~acc.l /\ ~acc.r THEN [some |-> FALSE, x |-> 0, y |-> 0, w |-> 0, h |-> 0]
        ELSE [some |-> TRUE, x |-> acc.max_left + fc.offx, y |-> t + fc.offy,
              w |-> acc.min_right - acc.max_left, h |-> b - t]

RECURSIVE place_between_floats(_, _, _, _)
\* FloatContext::place_between_floats: the highest place at or below float_y where the
\* float fits; fuel bounds the loop (the code asserts that it ends)
place_between_floats(fc, info, float_y, fuel) ==
    LET r == available_rect(fc, float_y, info.height, info.max_width)
    IN  IF ~r.some
        THEN [ok |-> TRUE, y |-> float_y,
              x |-> IF info.left THEN 0 ELSE info.max_width - info.width]
        ELSE IF r.w >= info.width
        THEN [ok |-> TRUE, y |-> float_y,
              x |-> IF info.left THEN r.x ELSE r.x + r.w - info.width]
        ELSE IF fuel = 0 \/ r.y + r.h = float_y THEN [ok |-> FALSE, x |-> 0, y |-> float_y]
        ELSE place_between_floats(fc, info, r.y + r.h, fuel - 1)

\* FloatContext::add_float: never above the floats placed before
add_float(fc, info) ==
    LET max_y == MaxSeq([i \in 1..Len(fc.floats) |-> fc.floats[i].y])
        ceiling == Max(info.ceiling, max_y + fc.offy)
        at == place_between_floats(fc, info, ceiling, Len(fc.floats) + 1)
    IN  [fc EXCEPT !.floats = Append(@, [x |-> at.x - fc.offx, y |-> at.y - fc.offy,
                                         w |-> info.width, h |-> info.height,
                                         left |-> info.left])]

\* the asserts of add_float hold
add_float_ok(fc, info) ==
    LET max_y == MaxSeq([i \in 1..Len(fc.floats) |-> fc.floats[i].y])
        ceiling == Max(info.ceiling, max_y + fc.offy)
    IN  /\ fc.valid
        /\ Len(fc.floats) < fc.cap
        /\ place_between_floats(fc, info, ceiling, Len(fc.floats) + 1).ok

\* FloatContext::last_float_pos
last_float_pos(fc) ==
    LET f == fc.floats[Len(fc.floats)]
    IN  [x |-> f.x + fc.offx, y |-> f.y + fc.offy]

----------------------------------------------------------------------------
(* Pass 3: assign_height, bottom-up, with the in-order sub-traversal for floats *)

\* Box::clear as a FloatContext operand
box_clear(n) == T(n).style.clear

\* BlockFlow::initialize_offsets
initialize_offsets(L, n, ignore_clear) ==
    IF ~HasBox(n)
    THEN [clearance |-> 0, top_offset |-> 0, bottom_offset |-> 0, left_offset |-> 0,
          ok |-> TRUE]
    ELSE LET asks == box_clear(n) # "none" /\ ~ignore_clear
             c == IF asks /\ L.base[n].floats_in.valid
                  THEN clearance(L.base[n].floats_in, box_clear(n)) ELSE 0
         IN  [clearance |-> c,
              top_offset |-> c + noncontent_top(L.box[n]),
              bottom_offset |-> noncontent_bottom(L.box[n]),
              left_offset |-> offset(L.box[n]),
              ok |-> asks => L.base[n].floats_in.valid]

\* BlockFlow::precompute_margin
precompute_margin(L, n) ==
    IF ~HasBox(n)
    THEN [margin_top |-> 0, margin_bottom |-> 0,
          top_margin_collapsible |-> FALSE, bottom_margin_collapsible |-> FALSE]
    ELSE LET b == L.box[n]
         IN  [margin_top |-> b.margin.top, margin_bottom |-> b.margin.bottom,
              top_margin_collapsible |->
                  ~T(n).is_root /\ b.border.top = 0 /\ b.padding.top = 0,
              bottom_margin_collapsible |->
                  ~T(n).is_root /\ b.border.bottom = 0 /\ b.padding.bottom = 0]

\* BlockFlow::collapse_margins, called by the parent on child n; st holds the five
\* values passed by reference
BlockFlow_collapse_margins(L, n, top_margin_collapsible, st) ==
    IF is_float(n) THEN [st EXCEPT !.collapsing = 0]
    ELSE IF ~HasBox(n) THEN [st EXCEPT !.first_in_flow = FALSE]
    ELSE LET b == L.box[n]
             slides == st.first_in_flow /\ top_margin_collapsible /\
                       st.margin_top < b.margin.top
         IN  [first_in_flow |-> FALSE,
              margin_top |-> IF slides THEN b.margin.top ELSE st.margin_top,
              top_offset |-> IF slides THEN st.top_offset + (b.margin.top - st.margin_top)
                             ELSE st.top_offset,
              collapsing |-> Min(b.margin.top, st.collapsible),
              collapsible |-> b.margin.bottom]

\* InlineFlow::collapse_margins: no margins of its own; a non-empty inline flow keeps
\* the margins before and after it apart
InlineFlow_collapse_margins(L, n, st) ==
    [st EXCEPT !.collapsing = 0,
               !.collapsible = IF L.base[n].h > 0 THEN 0 ELSE @]

collapse_margins(L, n, top_margin_collapsible, st) ==
    IF T(n).class \in {"block", "table_row", "table_wrapper"} THEN BlockFlow_collapse_margins(L, n, top_margin_collapsible, st)
    ELSE InlineFlow_collapse_margins(L, n, st)

RECURSIVE margin_collapse_kids(_, _, _, _, _, _)
\* the loop over the children of compute_margin_collapse
margin_collapse_kids(L, n, i, top_margin_collapsible, cur_y, st) ==
    IF i > Len(Kids(n)) THEN [L |-> L, cur_y |-> cur_y, st |-> st]
    ELSE With(collapse_margins(L, Kids(n)[i], top_margin_collapsible, st),
              LAMBDA st1 :
                  margin_collapse_kids(
                      [L EXCEPT !.base[Kids(n)[i]].y = cur_y - st1.collapsing], n, i + 1,
                      top_margin_collapsible,
                      cur_y - st1.collapsing + L.base[Kids(n)[i]].h, st1))

\* BlockFlow::compute_margin_collapse, after the loop: the bottom margin
margin_collapse_bottom_keeps_margin(r, margin_bottom, bottom_margin_collapsible) ==
    [L |-> r.L,
     cur_y |-> r.cur_y,
     collapsing |-> 0,
     top_offset |-> r.st.top_offset,
     margin_top |-> r.st.margin_top,
     margin_bottom |-> margin_bottom]

margin_collapse_bottom(r, margin_bottom, bottom_margin_collapsible) ==
    LET collapsing == IF bottom_margin_collapsible THEN r.st.collapsible ELSE 0
    IN  [L |-> r.L,
         cur_y |-> r.cur_y - collapsing,
         collapsing |-> collapsing,
         top_offset |-> r.st.top_offset,
         margin_top |-> r.st.margin_top,
         margin_bottom |-> IF bottom_margin_collapsible /\ margin_bottom < r.st.collapsible
                           THEN r.st.collapsible ELSE margin_bottom]

\* BlockFlow::compute_margin_collapse
compute_margin_collapse(L, n, cur_y, top_offset, margin_top, margin_bottom, top_margin_collapsible, bottom_margin_collapsible) ==
    margin_collapse_bottom(
        margin_collapse_kids(L, n, 1, top_margin_collapsible, cur_y,
            [first_in_flow |-> TRUE, margin_top |-> margin_top,
             top_offset |-> top_offset, collapsing |-> 0,
             collapsible |-> IF top_margin_collapsible THEN margin_top ELSE 0]),
        margin_bottom, bottom_margin_collapsible)

\* compute_height_position that also writes y into the box's position.origin.x
height_position_box_moves_x(L, n, yh, border_and_padding, margin_top, margin_bottom, clearance_, top_offset) ==
    [L |-> [L EXCEPT !.box[n].margin.top = margin_top,
                     !.box[n].margin.bottom = margin_bottom,
                     !.box[n].y = yh[1],
                     !.box[n].x = yh[1] + 1,
                     !.box[n].h = yh[2] + border_and_padding,
                     !.base[n].h = yh[2] + border_and_padding + clearance_ + margin_top + margin_bottom],
     height |-> yh[2]]

\* BlockFlow::compute_height_position, yh being what
\* get_y_coord_and_new_height_if_fixed returned; gives the layout and the height
height_position_box(L, n, yh, border_and_padding, margin_top, margin_bottom, clearance_, top_offset) ==
    LET L1 == [L EXCEPT !.base = [k \in DOMAIN L.base |->
                   IF T(n).is_fixed /\ k \in Range(Kids(n))
                   THEN [L.base[k] EXCEPT !.y = yh[1] + top_offset]
                   ELSE L.base[k]]]
        noncontent_height == border_and_padding + clearance_ + margin_top + margin_bottom
    IN  [L |-> [L1 EXCEPT !.box[n].margin.top = margin_top,
                          !.box[n].margin.bottom = margin_bottom,
                          !.box[n].y = yh[1],
                          !.box[n].h = IF T(n).is_fixed THEN yh[2]
                                       ELSE yh[2] + border_and_padding,
                          !.base[n].h = IF T(n).is_fixed THEN yh[2]
                                        ELSE yh[2] + noncontent_height],
         height |-> yh[2]]

\* BlockFlow::compute_height_position; returns the layout and the height it settled
compute_height_position(L, n, height, screen_height, border_and_padding, margin_top, margin_bottom, clearance_, top_offset) ==
    IF ~HasBox(n)
    THEN [L |-> [L EXCEPT !.base[n].h = height], height |-> height]
    ELSE height_position_box(L, n,
             get_y_coord_and_new_height_if_fixed(n, screen_height, height,
                                                 clearance_ + margin_top, T(n).is_fixed),
             border_and_padding, margin_top, margin_bottom, clearance_, top_offset)

\* BlockFlow::set_floats_out
set_floats_out_always_translates(L, n, float_ctx, height, cur_y, top_offset, bottom_offset, left_offset, inorder) ==
    IF inorder
    THEN LET extra_height == height - (cur_y - top_offset) + bottom_offset
         IN  [L EXCEPT !.base[n].floats_out = translate(float_ctx, left_offset, 0 - extra_height),
                       !.failed = @ \/ ~float_ctx.valid]
    ELSE [L EXCEPT !.base[n].floats_out = translate(L.base[n].floats_in, 0, 0 - height)]

set_floats_out(L, n, float_ctx, height, cur_y, top_offset, bottom_offset, left_offset, inorder) ==
    IF inorder
    THEN LET extra_height == height - (cur_y - top_offset) + bottom_offset
         IN  [L EXCEPT !.base[n].floats_out = translate(float_ctx, left_offset, 0 - extra_height),
                       !.failed = @ \/ ~float_ctx.valid]
    ELSE [L EXCEPT !.base[n].floats_out = L.base[n].floats_in]

\* InlineFlow::assign_height: the height line breaking found; the floats pass through,
\* seen from the bottom of the flow
InlineFlow_assign_height(L, n) ==
    [L EXCEPT !.base[n].h = T(n).leaf.height,
              !.base[n].floats_out = translate(L.base[n].floats_in, 0, 0 - T(n).leaf.height)]

\* BlockFlow::assign_height_float_inorder, the placement: fin is floats_in
place_float(L, n, fin, info) ==
    IF add_float_ok(fin, info)
    THEN With(add_float(fin, info),
              LAMBDA out : [L EXCEPT !.base[n].floats_out = out,
                                     !.flt[n].rel_x = last_float_pos(out).x,
                                     !.flt[n].rel_y = last_float_pos(out).y])
    ELSE [L EXCEPT !.failed = TRUE]

\* BlockFlow::assign_height_float_inorder
assign_height_float_inorder(L, n) ==
    LET b == L.box[n]
        fin == L.base[n].floats_in
        asks == HasBox(n) /\ box_clear(n) # "none"
    IN  place_float(L, n, fin,
            [width |-> L.base[n].w +
                       (IF HasBox(n)
                        THEN b.padding.left + b.padding.right + b.border.left +
                             b.border.right + b.margin.left + b.margin.right
                        ELSE 0),
             height |-> IF HasBox(n) THEN b.h + b.margin.top + b.margin.bottom ELSE 0,
             ceiling |-> IF asks /\ fin.valid THEN clearance(fin, box_clear(n)) ELSE 0,
             max_width |-> L.flt[n].containing_width,
             left |-> T(n).float = "left"])

RECURSIVE assign_height_inorder(_, _)

RECURSIVE inorder_kids_same_floats(_, _, _, _)
\* a faulty variant: every child is handed the floats of the first child, not those its
\* left sibling handed out
inorder_kids_same_floats(L, n, i, float_ctx) ==
    IF i > Len(Kids(n)) THEN [L |-> L, float_ctx |-> float_ctx]
    ELSE With(assign_height_inorder([L EXCEPT !.base[Kids(n)[i]].floats_in = float_ctx],
                                    Kids(n)[i]),
              LAMBDA L1 : inorder_kids_same_floats(L1, n, i + 1, float_ctx))

RECURSIVE inorder_kids(_, _, _, _)
\* the in-order loop over the children: each child gets the floats its left sibling
\* handed out, and is visited by assign_height_inorder
inorder_kids(L, n, i, float_ctx) ==
    IF i > Len(Kids(n)) THEN [L |-> L, float_ctx |-> float_ctx]
    ELSE With(assign_height_inorder([L EXCEPT !.base[Kids(n)[i]].floats_in = float_ctx],
                                    Kids(n)[i]),
              LAMBDA L1 : inorder_kids(L1, n, i + 1, L1.base[Kids(n)[i]].floats_out))

\* BlockFlow::handle_children_floats_if_inorder
handle_children_floats_if_inorder(L, n, point_x, point_y, inorder) ==
    IF inorder
    THEN inorder_kids([L EXCEPT !.failed = @ \/ ~L.base[n].floats_in.valid], n, 1,
                      translate(L.base[n].floats_in, point_x, point_y))
    ELSE [L |-> L, float_ctx |-> Invalid]

\* BlockFlow::assign_height_block_base from the height on: mc is what
\* compute_margin_collapse returned. TableWrapperFlow::assign_height_block_base is the
\* same function with the helpers written out in it (a wrapper is neither the root nor
\* fixed), except that it takes the collapsed bottom margin off the height and not off
\* cur_y, so that floats_out is computed from the cur_y before that step
block_base_height(mc, n, io, float_ctx, inorder) ==
    LET screen_height == tree.screen.height
        height0 == IF T(n).is_root THEN Max(screen_height, mc.cur_y)
                   ELSE mc.cur_y - mc.top_offset
        height1 == IF HasBox(n)
                   THEN specified_or_default(from_style(T(n).style.height, height0), height0)
                   ELSE height0
        b == mc.L.box[n]
        border_and_padding ==
            IF HasBox(n)
            THEN b.padding.top + b.padding.bottom + b.border.top + b.border.bottom
            ELSE 0
    IN  With(compute_height_position(mc.L, n, height1, screen_height, border_and_padding,
                                     mc.margin_top, mc.margin_bottom, io.clearance,
                                     mc.top_offset),
             LAMBDA hp : set_floats_out(hp.L, n, float_ctx, hp.height,
                                        IF T(n).class = "table_wrapper"
                                        THEN mc.cur_y + mc.collapsing ELSE mc.cur_y,
                                        mc.top_offset, io.bottom_offset, io.left_offset,
                                        inorder))

\* BlockFlow::assign_height_block_base after the children's floats: hc is what
\* handle_children_floats_if_inorder returned
block_base_margins(hc, n, io, inorder) ==
    LET pm == precompute_margin(hc.L, n)
    IN  block_base_height(
            compute_margin_collapse(hc.L, n, io.top_offset, io.top_offset,
                                    pm.margin_top, pm.margin_bottom,
                                    pm.top_margin_collapsible,
                                    pm.bottom_margin_collapsible),
            n, io, hc.float_ctx, inorder)

\* BlockFlow::assign_height_block_base
assign_height_block_base(L, n, inorder) ==
    With(initialize_offsets(L, n, FALSE),
         LAMBDA io :
             block_base_margins(
                 handle_children_floats_if_inorder([L EXCEPT !.failed = @ \/ ~io.ok], n,
                                                   0 - io.left_offset, 0 - io.top_offset,
                                                   inorder),
                 n, io, inorder))

RECURSIVE float_stack_kids(_, _, _, _)
\* the second loop of assign_height_float: the children one below the other
float_stack_kids(L, n, i, cur_y) ==
    IF i > Len(Kids(n)) THEN [L |-> L, cur_y |-> cur_y]
    ELSE LET kid == Kids(n)[i]
         IN  float_stack_kids([L EXCEPT !.base[kid].y = cur_y], n, i + 1,
                              cur_y + L.base[kid].h)

\* assign_height_float that gives the flow the height of its box as well
float_box_height_writes_flow_height(sk, n, top_offset) ==
    LET height == sk.cur_y - top_offset
        b == sk.L.box[n]
        noncontent_height == b.padding.top + b.padding.bottom + b.border.top + b.border.bottom
        height_prop == specified_or_zero(from_style(T(n).style.height, 0))
    IN  IF ~HasBox(n) THEN [sk.L EXCEPT !.failed = TRUE]
        ELSE [sk.L EXCEPT !.box[n].y = b.margin.top,
                          !.box[n].h = Max(height, height_prop) + noncontent_height,
                          !.base[n].h = Max(height, height_prop) + noncontent_height]

\* BlockFlow::assign_height_float once the children are stacked: the box
float_box_height(sk, n, top_offset) ==
    LET height == sk.cur_y - top_offset
        b == sk.L.box[n]
        noncontent_height == b.padding.top + b.padding.bottom + b.border.top + b.border.bottom
        height_prop == specified_or_zero(from_style(T(n).style.height, 0))
    IN  IF ~HasBox(n) THEN [sk.L EXCEPT !.failed = TRUE]
        ELSE [sk.L EXCEPT !.box[n].y = b.margin.top,
                          !.box[n].h = Max(height, height_prop) + noncontent_height]

\* BlockFlow::assign_height_float
assign_height_float(L, n) ==
    LET has_inorder_children == L.base[n].num_floats > 0
        top_offset == IF HasBox(n) THEN noncontent_top(L.box[n]) ELSE 0
    IN  float_box_height(
            float_stack_kids(
                IF has_inorder_children
                THEN inorder_kids(L, n, 1, FloatContext_new(L.flt[n].floated_children)).L
                ELSE L,
                n, 1, top_offset),
            n, top_offset)

\* TableRowFlow::assign_height_table_base after the in-order loop: hc is what the loop
\* returned, yh what get_y_coord_and_new_height_if_fixed returned for the row's height.
\* cur_y and every offset are zero throughout
row_base_height(hc, n, yh, max_y, inorder) ==
    LET height == yh[2]
        kids == Range(Kids(n))
        kid_y == IF HasBox(n) /\ T(n).is_fixed THEN yh[1] ELSE 0
        cur_y == 0 + height
        extra_height == height - (cur_y - 0) + 0
        L1 == [hc.L EXCEPT
                 !.base = [k \in DOMAIN hc.L.base |->
                             IF k \in kids
                             THEN [hc.L.base[k] EXCEPT !.y = kid_y, !.h = max_y]
                             ELSE IF k = n THEN [hc.L.base[k] EXCEPT !.h = height]
                             ELSE hc.L.base[k]],
                 !.box = [k \in DOMAIN hc.L.box |->
                             IF k \in kids /\ HasBox(k)
                             THEN [hc.L.box[k] EXCEPT !.h = height]
                             ELSE IF k = n /\ HasBox(n)
                             THEN [hc.L.box[k] EXCEPT !.y = yh[1], !.h = height]
                             ELSE hc.L.box[k]]]
    IN  IF inorder
        THEN [L1 EXCEPT !.base[n].floats_out = translate(hc.float_ctx, 0, 0 - extra_height),
                        !.failed = @ \/ ~hc.float_ctx.valid]
        ELSE [L1 EXCEPT !.base[n].floats_out = hc.L.base[n].floats_in]

\* TableRowFlow::assign_height_table_base once the children are visited: the tallest
\* cell, and the height property of the row's box
row_base_max(hc, n, max_y, inorder) ==
    row_base_height(hc, n,
        IF HasBox(n)
        THEN get_y_coord_and_new_height_if_fixed(
                 n, tree.screen.height,
                 specified_or_default(from_style(T(n).style.height, max_y), max_y),
                 0, T(n).is_fixed)
        ELSE <<0, max_y>>,
        max_y, inorder)

\* TableRowFlow::assign_height_table_base
assign_height_table_base(L, n, inorder) ==
    With(handle_children_floats_if_inorder(L, n, 0, 0, inorder),
         LAMBDA hc :
             row_base_max(hc, n,
                 MaxSeq([i \in 1..Len(Kids(n)) |-> hc.L.base[Kids(n)[i]].h]), inorder))

\* TableCellFlow::assign_height and assign_height_inorder of a cell without children:
\* the height its content needs; in order the floats pass through, seen from its bottom
TableCellFlow_assign_height(L, n, inorder) ==
    [L EXCEPT !.base[n].h = T(n).leaf.height,
              !.box[n].h = T(n).leaf.height,
              !.base[n].floats_out =
                  IF inorder THEN translate(L.base[n].floats_in, 0, 0 - T(n).leaf.height)
                  ELSE L.base[n].floats_in,
              !.failed = @ \/ (inorder /\ ~L.base[n].floats_in.valid)]

\* assign_height_inorder of BlockFlow and TableWrapperFlow, of TableRowFlow (its float
\* functions are those of BlockFlow), of TableCellFlow and of InlineFlow
assign_height_inorder(L, n) ==
    CASE T(n).class \in {"block", "table_wrapper"} ->
             IF is_float(n) THEN assign_height_float_inorder(L, n)
             ELSE assign_height_block_base(L, n, TRUE)
      [] T(n).class = "table_row" ->
             IF is_float(n) THEN assign_height_float_inorder(L, n)
             ELSE assign_height_table_base(L, n, TRUE)
      [] T(n).class = "table_cell" -> TableCellFlow_assign_height(L, n, TRUE)
      [] OTHER -> InlineFlow_assign_height(L, n)

\* TableRowFlow::assign_height
TableRowFlow_assign_height(L, n) ==
    IF is_float(n) THEN assign_height_float(L, n)
    ELSE assign_height_table_base(L, n, FALSE)

\* TableWrapperFlow::assign_height: never starts an in-order traversal; the base and
\* the float functions are those of BlockFlow (see block_base_height)
TableWrapperFlow_assign_height(L, n) ==
    IF is_float(n) THEN assign_height_float(L, n)
    ELSE assign_height_block_base(L, n, FALSE)

\* a faulty variant: the root starts an in-order traversal whether or not the tree has floats
BlockFlow_assign_height_root_inorder(L, n) ==
    IF is_float(n) THEN assign_height_float(L, n)
    ELSE IF T(n).is_root THEN assign_height_inorder(L, n)
    ELSE assign_height_block_base(L, n, FALSE)

\* BlockFlow::assign_height (Box::assign_height does nothing for a generic box)
BlockFlow_assign_height(L, n) ==
    IF is_float(n) THEN assign_height_float(L, n)
    ELSE IF T(n).is_root /\ L.base[n].num_floats > 0 THEN assign_height_inorder(L, n)
    ELSE assign_height_block_base(L, n, FALSE)

----------------------------------------------------------------------------
(* The traversal driver *)

IsCollaborator(n) == T(n).class \in {"inline", "table_cell", "table", "table_colgroup"}

NextPassName(p) ==
    CASE p = "bubble" -> "widths"
      [] p = "widths" -> "heights"
      [] p = "heights" -> "paint"
      [] OTHER -> "done"

\* the flows a pass visits, in order. The height pass is bottom-up and leaves out the
\* flows whose in-order bit is set: those are reached by assign_height_inorder
StartTodo(p, L) ==
    CASE p = "bubble" -> PostOrderOf(tree.nodes, 1)
      [] p = "widths" -> PreOrderOf(tree.nodes, 1)
      [] p = "heights" -> SelectSeq(PostOrderOf(tree.nodes, 1), LAMBDA n : ~L.base[n].inorder)
      [] p = "paint" -> PreOrderOf(tree.nodes, 1)
      [] OTHER -> <<>>

\* the driver after a visit: the rest of this pass, or the start of the next one
Advance(rest, L) ==
    IF rest # <<>> THEN [pc EXCEPT !.todo = rest]
    ELSE IF pc.pass = pc.last
    THEN [pc EXCEPT !.pass = "done", !.todo = <<>>,
                    !.runs = IF pc.pass = "heights" THEN @ + 1 ELSE @]
    ELSE [pc EXCEPT !.pass = NextPassName(pc.pass),
                    !.todo = StartTodo(NextPassName(pc.pass), L),
                    !.runs = IF pc.pass = "heights" THEN @ + 1 ELSE @]

Visiting(p, classes) ==
    /\ ~failed
    /\ pc.pass = p
    /\ pc.todo # <<>>
    /\ T(Head(pc.todo)).class \in classes

Apply(L) ==
    /\ base' = L.base
    /\ box' = L.box
    /\ flt' = L.flt
    /\ cols' = L.cols
    /\ failed' = L.failed
    /\ pc' = Advance(Tail(pc.todo), L)
    /\ UNCHANGED <<tree, dl, snap, hz>>

Block_bubble_widths ==
    /\ Visiting("bubble", {"block"})
    /\ Apply(BlockFlow_bubble_widths(Cur, Head(pc.todo)))

TableRow_bubble_widths ==
    /\ Visiting("bubble", {"table_row"})
    /\ Apply(TableRowFlow_bubble_widths(Cur, Head(pc.todo)))

TableWrapper_bubble_widths ==
    /\ Visiting("bubble", {"table_wrapper"})
    /\ Apply(TableWrapperFlow_bubble_widths(Cur, Head(pc.todo)))

Other_bubble_widths ==
    /\ Visiting("bubble", {"inline", "table_cell", "table", "table_colgroup"})
    /\ Apply(Collaborator_bubble_widths(Cur, Head(pc.todo)))

Block_assign_widths ==
    /\ Visiting("widths", {"block"})
    /\ Apply(BlockFlow_assign_widths(Cur, Head(pc.todo)))

TableWrapper_assign_widths ==
    /\ Visiting("widths", {"table_wrapper"})
    /\ Apply(TableWrapperFlow_assign_widths(Cur, Head(pc.todo)))

\* assign_widths of a collaborating flow without children writes nothing modelled here
Other_assign_widths ==
    /\ Visiting("widths", {"inline", "table_cell", "table", "table_colgroup"})
    /\ Apply(Cur)

Block_assign_height ==
    /\ Visiting("heights", {"block"})
    /\ Apply(BlockFlow_assign_height(Cur, Head(pc.todo)))

Other_assign_height ==
    /\ Visiting("heights", {"inline", "table"})
    /\ Apply(InlineFlow_assign_height(Cur, Head(pc.todo)))

TableWrapper_assign_height ==
    /\ Visiting("heights", {"table_wrapper"})
    /\ Apply(TableWrapperFlow_assign_height(Cur, Head(pc.todo)))

TableRow_assign_widths ==
    /\ Visiting("widths", {"table_row"})
    /\ Apply(TableRowFlow_assign_widths(Cur, Head(pc.todo)))

TableRow_assign_height ==
    /\ Visiting("heights", {"table_row"})
    /\ Apply(TableRowFlow_assign_height(Cur, Head(pc.todo)))

TableCell_assign_height ==
    /\ Visiting("heights", {"table_cell"})
    /\ Apply(TableCellFlow_assign_height(Cur, Head(pc.todo), FALSE))

\* the positions and sizes a height pass leaves behind
Heights(L) ==
    [n \in DOMAIN L.base |->
        [y |-> L.base[n].y, h |-> L.base[n].h, box_y |-> L.box[n].y, box_h |-> L.box[n].h,
         margin_top |-> L.box[n].margin.top, margin_bottom |-> L.box[n].margin.bottom]]

\* the layout task runs the height traversal again on the unchanged tree
Relayout_heights ==
    /\ ~failed
    /\ pc.pass = "done"
    /\ pc.last = "heights"
    /\ pc.runs < MaxHeightRuns
    /\ snap' = IF pc.runs = 1 THEN Heights(Cur) ELSE snap
    /\ pc' = [pc EXCEPT !.pass = "heights", !.todo = StartTodo("heights", Cur)]
    /\ UNCHANGED <<tree, base, box, flt, cols, dl, failed, hz>>

\* compute_horiz called on its own
NoCall == [called |-> FALSE]

Block_compute_horiz ==
    /\ hz.called = FALSE
    /\ hz' = [hz EXCEPT !.called = TRUE, !.by = "block",
                        !.out = compute_horiz(hz.width, hz.left, hz.right, hz.avail)]
    /\ UNCHANGED <<tree, base, box, flt, cols, pc, dl, snap, failed>>

TableWrapper_compute_horiz ==
    /\ hz.called = FALSE
    /\ hz' = [hz EXCEPT !.called = TRUE, !.by = "table_wrapper",
                        !.out = tw_compute_horiz(hz.width, hz.left, hz.right, hz.avail)]
    /\ UNCHANGED <<tree, base, box, flt, cols, pc, dl, snap, failed>>

----------------------------------------------------------------------------
(* Initial states: flow trees as flow construction leaves them *)

DefStyle ==
    [width |-> LPA_Auto, height |-> LPA_Auto,
     margin_top |-> LP_Length(0), margin_right |-> LP_Length(0),
     margin_bottom |-> LP_Length(0), margin_left |-> LP_Length(0),
     min_width |-> LP_Length(0), max_width |-> LPN_None,
     border |-> Zero4, padding |-> Zero4, offsets |-> Zero4,
     clear |-> "none", table_fixed |-> FALSE]

DefLeaf == [min_width |-> 0, pref_width |-> 0, height |-> 0,
            col_widths |-> <<>>, cell_min_widths |-> <<>>]

\* a flow: BlockFlow::from_box unless changed
Flow(class, kids) ==
    [class |-> class, kids |-> kids, is_root |-> FALSE, is_fixed |-> FALSE,
     float |-> "none", has_box |-> TRUE, style |-> DefStyle,
     box_min |-> 0, box_pref |-> 0, leaf |-> DefLeaf]

\* BlockFlow::new_root
Root(kids) == [Flow("block", kids) EXCEPT !.is_root = TRUE, !.has_box = FALSE]

\* a collaborating flow with its intrinsic widths
Leaf(class, mp) ==
    [Flow(class, <<>>) EXCEPT !.leaf.min_width = mp[1], !.leaf.pref_width = mp[2]]

NoDirty == [x |-> 0, y |-> 0, w |-> 0, h |-> 0]
Tree(nodes, screen_width, screen_height) ==
    [nodes |-> nodes, screen |-> [width |-> screen_width, height |-> screen_height],
     dirty |-> NoDirty]

InitTree(t, last) ==
    /\ tree = t
    /\ base = [n \in 1..Len(t.nodes) |-> BaseFlow_new]
    /\ box = [n \in 1..Len(t.nodes) |-> Box_new]
    /\ flt = [n \in 1..Len(t.nodes) |-> FloatedBlockInfo_new]
    /\ cols = [n \in 1..Len(t.nodes) |-> Cols_new]
    /\ pc = [pass |-> "bubble", todo |-> PostOrderOf(t.nodes, 1), runs |-> 0, last |-> last]
    /\ dl = <<>>
    /\ snap = <<>>
    /\ failed = FALSE
    /\ hz = NoCall

AuVals == 0..MaxAu
\* intrinsic widths (minimum, preferred) as boxes and leaf flows report them
MinPref == {mp \in AuVals \X AuVals : mp[1] <= mp[2]}
MaybeAutoVals == {Auto} \cup {Specified(v) : v \in (0 - 1)..MaxAu}
AvailVals == (0 - 1)..MaxAvail

----------------------------------------------------------------------------
(* SpecHoriz: compute_horiz as a pure function of its four arguments *)

InitHoriz ==
    /\ \E w \in MaybeAutoVals, l \in MaybeAutoVals, r \in MaybeAutoVals, a \in AvailVals :
          hz = [called |-> FALSE, by |-> "none", width |-> w, left |-> l, right |-> r,
                avail |-> a, out |-> <<0, 0, 0>>]
    /\ tree = Tree(<<Root(<<>>)>>, 0, 0)
    /\ base = <<BaseFlow_new>>
    /\ box = <<Box_new>>
    /\ flt = <<FloatedBlockInfo_new>>
    /\ cols = <<Cols_new>>
    /\ pc = [pass |-> "done", todo |-> <<>>, runs |-> 0, last |-> "done"]
    /\ dl = <<>>
    /\ snap = <<>>
    /\ failed = FALSE

NextHoriz == Block_compute_horiz \/ TableWrapper_compute_horiz

SpecHoriz == InitHoriz /\ [][NextHoriz]_vars

----------------------------------------------------------------------------
(* SpecBubble: bubble_widths over a tree with a table wrapper, a row and blocks *)

\*   1 root -+- 2 table wrapper -+- 3 column group
\*           |                   +- 4 inner table
\*           |                   +- 5 block (caption) --- 9 inline
\*           +- 6 table row -+- 7 cell
\*                           +- 8 cell
BubbleTrees ==
    { Tree(<< Root(<<2, 6>>),
              [Flow("table_wrapper", <<3, 4, 5>>) EXCEPT !.box_min = wb[1], !.box_pref = wb[2]],
              Leaf("table_colgroup", <<0, 0>>),
              Leaf("table", <<0, MaxAu>>),
              [Flow("block", <<9>>) EXCEPT !.box_min = bb[1], !.box_pref = bb[2],
                                           !.float = fl],
              Flow("table_row", <<7, 8>>),
              Leaf("table_cell", c1),
              Leaf("table_cell", c2),
              Leaf("inline", il) >>, MaxAvail, MaxAvail) :
        wb \in {<<0, 0>>, <<0, MaxAu>>, <<MaxAu, MaxAu>>}, bb \in MinPref, c1 \in MinPref, c2 \in MinPref, il \in MinPref,
        fl \in {"none", "left"} }

InitBubble == \E t \in BubbleTrees : InitTree(t, "bubble")

NextBubble ==
    \/ Block_bubble_widths
    \/ TableRow_bubble_widths
    \/ TableWrapper_bubble_widths
    \/ Other_bubble_widths

SpecBubble == InitBubble /\ [][NextBubble]_vars

BubbleDone(n) == \A i \in 1..Len(pc.todo) : pc.todo[i] # n

\* C3: once bubble_widths has run on a BlockFlow, TableRowFlow or TableWrapperFlow
\* (children first, leaves and boxes reporting minimum <= preferred), the flow's
\* minimum width is at most its preferred width
C3_MinAtMostPref ==
    \A n \in Nodes :
        (BubbleDone(n) /\ T(n).class \in {"block", "table_row", "table_wrapper"})
            => base[n].min_width <= base[n].pref_width

\* all three kinds of flow have bubbled, with a box whose minimum is below its preferred
\* width and children whose widths differ
C3_Witness ==
    /\ pc.pass = "done"
    /\ T(5).box_min < T(5).box_pref
    /\ base[9].min_width < base[9].pref_width
    /\ base[5].min_width = base[9].min_width + T(5).box_min
    /\ base[6].min_width = base[7].min_width + base[8].min_width
    /\ base[6].min_width > 0 /\ base[6].min_width < base[6].pref_width
    /\ base[2].min_width = base[5].min_width + T(2).box_min
    /\ base[2].min_width < base[2].pref_width
    /\ base[1].pref_width = Max(base[2].pref_width, base[6].pref_width)

----------------------------------------------------------------------------
(* SpecWidths: bubble_widths, then assign_widths, over a block with every combination
   of horizontal style, and over a table wrapper with a column group *)

RECURSIVE SeqsOfLen(_, _)
SeqsOfLen(S, k) ==
    IF k = 0 THEN {<<>>} ELSE {Append(q, x) : q \in SeqsOfLen(S, k - 1), x \in S}
SeqsUpTo(S, n) == UNION {SeqsOfLen(S, k) : k \in 0..n}

\* most columns a table declares
MaxCols == 3

LengthVals == {LP_Length(v) : v \in AuVals}
WidthStyles == {LPA_Auto, LP_Percentage(50)} \cup LengthVals
MarginStyles == {LPA_Auto, LP_Length(0 - 1)} \cup LengthVals
ScreenWidths == {MaxAvail - 1, MaxAvail}

\*   1 root --- 2 block --- 3 inline
BlockWidthTrees ==
    { Tree(<< Root(<<2>>),
              [Flow("block", <<3>>) EXCEPT !.style.width = w,
                                           !.style.margin_left = ml,
                                           !.style.margin_right = mr,
                                           !.style.min_width = mn,
                                           !.style.max_width = mx,
                                           !.style.padding.left = pl,
                                           !.style.border.right = pl,
                                           !.float = fl],
              Leaf("inline", <<1, MaxAu>>) >>, sw, MaxAvail) :
        w \in WidthStyles, ml \in MarginStyles, mr \in MarginStyles,
        mn \in LengthVals, mx \in {LPN_None} \cup LengthVals,
        pl \in {0, 1}, fl \in {"none", "left"}, sw \in ScreenWidths }

\*   1 root --- 2 table wrapper -+- 3 column group
\*                               +- 4 inner table
TableWidthTrees ==
    { Tree(<< Root(<<2>>),
              [Flow("table_wrapper", <<3, 4>>) EXCEPT !.style.width = w,
                                                      !.style.table_fixed = fx,
                                                      !.style.padding.left = 1],
              [Flow("table_colgroup", <<>>) EXCEPT !.leaf.col_widths = cg],
              [Flow("table", <<>>) EXCEPT !.leaf.col_widths = <<1, 1>>,
                                          !.leaf.cell_min_widths = [j \in 1..nc |-> 0]]
           >>, sw, MaxAvail) :
        w \in {LPA_Auto, LP_Length(0), LP_Length(MaxAu)}, fx \in BOOLEAN,
        cg \in SeqsUpTo(AuVals, MaxCols), nc \in 0..MaxCols, sw \in ScreenWidths }

InitWidths ==
    \/ \E t \in BlockWidthTrees : InitTree(t, "widths")
    \/ \E t \in TableWidthTrees : InitTree(t, "widths")

NextWidths ==
    \/ Block_bubble_widths
    \/ TableWrapper_bubble_widths
    \/ Other_bubble_widths
    \/ Block_assign_widths
    \/ TableWrapper_assign_widths
    \/ Other_assign_widths

SpecWidths == InitWidths /\ [][NextWidths]_vars

\* assign_widths has visited flow n
WidthsDone(n) ==
    \/ pc.pass \in {"heights", "paint", "done"}
    \/ pc.pass = "widths" /\ \A i \in 1..Len(pc.todo) : pc.todo[i] # n

\* a non-floated block with a box that assign_widths has visited
LaidOutBlock(n) ==
    T(n).class = "block" /\ ~is_float(n) /\ ~T(n).is_fixed /\ HasBox(n) /\ WidthsDone(n)

\* the width of the containing block, and what is left of it inside borders and padding
ContainingWidth(n) == base[n].w
AvailableWidth(n) ==
    base[n].w - (box[n].padding.left + box[n].padding.right +
                 box[n].border.left + box[n].border.right)
\* the used content width: the border box less borders and padding
UsedWidth(n) ==
    box[n].w - (box[n].padding.left + box[n].padding.right +
                box[n].border.left + box[n].border.right)
ResolvedMin(n) == specified(T(n).style.min_width, ContainingWidth(n))
ResolvedMax(n) == specified_or_none(T(n).style.max_width, ContainingWidth(n))
\* the width after the max-width step and then the min-width step
Clamped(n, w) ==
    LET w1 == IF ResolvedMax(n).some /\ ResolvedMax(n).v < w THEN ResolvedMax(n).v ELSE w
    IN  IF ResolvedMin(n) > w1 THEN ResolvedMin(n) ELSE w1

AllSpecified(n) ==
    /\ T(n).style.width.k # "auto"
    /\ T(n).style.margin_left.k # "auto"
    /\ T(n).style.margin_right.k # "auto"

\* C1: for a non-floated block whose width and both horizontal margins are Specified,
\* assign_widths keeps the specified left margin and the width (the specified one, or
\* its max-/min-width replacement) and sets the right margin to
\* available_width - left - width, so the three add up to available_width
C1_OverConstrainedSolvesRight ==
    \A n \in Nodes :
        (LaidOutBlock(n) /\ AllSpecified(n)) =>
            LET left == from_style(T(n).style.margin_left, ContainingWidth(n)).v
                width == from_style(T(n).style.width, ContainingWidth(n)).v
            IN  /\ box[n].margin.left = left
                /\ UsedWidth(n) = Clamped(n, width)
                /\ box[n].margin.right = AvailableWidth(n) - left - UsedWidth(n)
                /\ box[n].margin.left + UsedWidth(n) + box[n].margin.right
                       = AvailableWidth(n)

\* an over-constrained block: the specified right margin was replaced
C1_Witness ==
    /\ pc.pass = "done"
    /\ LaidOutBlock(2) /\ AllSpecified(2)
    /\ T(2).style.width = LP_Length(1)
    /\ T(2).style.margin_left = LP_Length(1)
    /\ T(2).style.margin_right = LP_Length(1)
    /\ UsedWidth(2) = 1
    /\ box[2].margin.left = 1
    /\ box[2].margin.right = AvailableWidth(2) - 2
    /\ box[2].margin.right > 1

\* C4: for a non-floated block whose resolved max-width is below its resolved
\* min-width, the used width is the min-width, whatever width and margins are
C4_MinWidthWins ==
    \A n \in Nodes :
        (LaidOutBlock(n) /\ ResolvedMax(n).some /\ ResolvedMax(n).v < ResolvedMin(n))
            => UsedWidth(n) = ResolvedMin(n)

\* max-width 0 < min-width, with a specified width above both
C4_Witness ==
    /\ pc.pass = "done"
    /\ LaidOutBlock(2)
    /\ ResolvedMax(2).some /\ ResolvedMax(2).v < ResolvedMin(2)
    /\ T(2).style.width.k = "len" /\ T(2).style.width.v > ResolvedMin(2)
    /\ UsedWidth(2) = ResolvedMin(2)

BothMarginsAuto(n) ==
    /\ T(n).style.width.k # "auto"
    /\ T(n).style.margin_left.k = "auto"
    /\ T(n).style.margin_right.k = "auto"

\* C9 as stated: for a non-floated block with a Specified width not above the
\* available width and both horizontal margins Auto, the used margins are equal and
\* each is floor((available_width - width) / 2), width being the specified width
C9_CentredOnSpecifiedWidth ==
    \A n \in Nodes :
        LET width == from_style(T(n).style.width, ContainingWidth(n)).v
        IN  (LaidOutBlock(n) /\ BothMarginsAuto(n) /\ width <= AvailableWidth(n)) =>
                /\ box[n].margin.left = box[n].margin.right
                /\ box[n].margin.left = (AvailableWidth(n) - width) \div 2

\* C9 amended: for a non-floated block with a Specified width and both horizontal
\* margins Auto, whose used width (the specified width, or its max-/min-width
\* replacement) is not above the available width, the used margins are equal and each
\* is floor((available_width - used width) / 2)
C9_CentredOnUsedWidth ==
    \A n \in Nodes :
        LET width == from_style(T(n).style.width, ContainingWidth(n)).v
        IN  (LaidOutBlock(n) /\ BothMarginsAuto(n)) =>
                /\ UsedWidth(n) = Clamped(n, width)
                /\ UsedWidth(n) <= AvailableWidth(n) =>
                      /\ box[n].margin.left = box[n].margin.right
                      /\ box[n].margin.left = (AvailableWidth(n) - UsedWidth(n)) \div 2

\* an odd free width is halved and the half-unit dropped
C9_Witness ==
    /\ pc.pass = "done"
    /\ LaidOutBlock(2) /\ BothMarginsAuto(2)
    /\ UsedWidth(2) = from_style(T(2).style.width, ContainingWidth(2)).v
    /\ (AvailableWidth(2) - UsedWidth(2)) % 2 = 1
    /\ box[2].margin.left = box[2].margin.right
    /\ box[2].margin.left > 0
    /\ 2 * box[2].margin.left = AvailableWidth(2) - UsedWidth(2) - 1

\* C2: for every Auto/Specified combination of width and margins and every available
\* width, the triple compute_horiz returns satisfies left + width + right ==
\* available_width (BlockFlow's and TableWrapperFlow's compute_horiz alike)
C2_SumIsAvailable ==
    hz.called => hz.out[2] + hz.out[1] + hz.out[3] = hz.avail

\* the table kid of table wrapper n
TableKids(n) == {k \in Range(Kids(n)) : T(k).class = "table"}
ZeroColumns(cw) == {i \in 1..Len(cw) : cw[i] = 0}
NonZeroSum(cw) == SumSeq([i \in 1..Len(cw) |-> cw[i]])

\* C10: the width vector TableWrapperFlow.assign_widths hands to the inner table keeps
\* every non-zero column and gives every zero column (remaining_width - S) div k, the
\* quotient cut toward zero, S the sum of the non-zero columns and k the number of
\* zero columns; with k = 0 the vector is handed over unchanged
C10_ColumnDistribution ==
    \A n \in Nodes : \A t \in TableKids(n) :
        (T(n).class = "table_wrapper" /\ WidthsDone(n)) =>
            LET cw == cols[n].col_widths
                out == cols[t].col_widths
                remaining_width == base[t].w
                S == NonZeroSum(cw)
                k == Cardinality(ZeroColumns(cw))
                free == remaining_width - S
                share == IF free >= 0 THEN free \div k ELSE 0 - ((0 - free) \div k)
            IN  /\ Len(out) = Len(cw)
                /\ \A i \in 1..Len(cw) :
                      /\ cw[i] # 0 => out[i] = cw[i]
                      /\ cw[i] = 0 => out[i] = share
                /\ k = 0 => out = cw

\* two zero columns share an odd free width beside a declared column
C10_Witness ==
    /\ pc.pass = "done"
    /\ T(2).class = "table_wrapper"
    /\ Len(cols[2].col_widths) = 3
    /\ Cardinality(ZeroColumns(cols[2].col_widths)) = 2
    /\ NonZeroSum(cols[2].col_widths) > 0
    /\ (base[4].w - NonZeroSum(cols[2].col_widths)) % 2 = 1
    /\ base[4].w - NonZeroSum(cols[2].col_widths) > 2
    /\ \E i \in 1..3 : cols[4].col_widths[i] = cols[2].col_widths[i] /\ cols[2].col_widths[i] # 0
    /\ \E i \in 1..3 : cols[2].col_widths[i] = 0 /\
          2 * cols[4].col_widths[i] = base[4].w - NonZeroSum(cols[2].col_widths) - 1

----------------------------------------------------------------------------
(* SpecHeights: the three passes up to assign_height over a block with two block
   children, the block in flow, floated or fixed, the first child in flow or floated;
   the height pass may then run again *)

TextLeaf == [Leaf("inline", <<1, MaxAu>>) EXCEPT !.leaf.height = 1]

\*   1 root --- 2 block -+- 3 block --- 5 inline
\*                       +- 4 block --- 6 inline
HeightTrees ==
    { Tree(<< Root(<<2>>),
              [Flow("block", <<3, 4>>) EXCEPT !.float = IF pk = "float" THEN "left" ELSE "none",
                                              !.is_fixed = (pk = "fixed"),
                                              !.style.margin_top = LP_Length(pmt),
                                              !.style.border.top = pbt],
              [Flow("block", <<5>>) EXCEPT !.float = af,
                                           !.style.margin_top = LP_Length(amt),
                                           !.style.margin_bottom = LP_Length(amb)],
              [Flow("block", <<6>>) EXCEPT !.style.margin_top = LP_Length(bmt),
                                           !.style.clear = bc],
              TextLeaf,
              TextLeaf >>, MaxAvail, MaxAvail) :
        pk \in {"flow", "float", "fixed"}, pmt \in AuVals, pbt \in {0, 1},
        af \in {"none", "left"}, amt \in AuVals, amb \in AuVals,
        bmt \in AuVals, bc \in {"none", "left"} }

InitHeights == \E t \in HeightTrees : InitTree(t, "heights")

NextHeights ==
    \/ Block_bubble_widths
    \/ Other_bubble_widths
    \/ Block_assign_widths
    \/ Other_assign_widths
    \/ Block_assign_height
    \/ Other_assign_height
    \/ Relayout_heights

SpecHeights == InitHeights /\ [][NextHeights]_vars

\* the height pass has run over the whole tree at least once
HeightsDone == pc.pass = "done" /\ pc.runs >= 1

\* C5: a second height pass over a tree whose style and widths are unchanged leaves
\* the same child y positions, flow heights, box heights and box top/bottom margins
\* as the first
C5_SecondHeightPassChangesNothing ==
    (pc.pass = "done" /\ pc.runs >= 2 /\ ~failed) => Heights(Cur) = snap

\* the top and the bottom of the border box of flow n, in the frame of n's parent
BorderBoxTop(n) == base[n].y + box[n].y
BorderBoxBottom(n) == base[n].y + box[n].y + box[n].h
\* the top of the content box of flow n, in n's own frame
ContentBoxTop(n) == box[n].y + box[n].border.top + box[n].padding.top

BlockWithBox(n) == T(n).class = "block" /\ ~is_float(n) /\ HasBox(n)

\* C7: after the parent's assign_height, two adjacent non-floated block children with
\* boxes are apart by max(first.margin_bottom, second.margin_top), not by the sum:
\* the gap from the first's border-box bottom to the second's border-box top
C7_SiblingGapIsMaxOfMargins ==
    (pc.pass = "done" /\ pc.runs = 1) =>
        \A p \in Nodes : \A i \in 1..(Len(Kids(p)) - 1) :
            LET a == Kids(p)[i]
                b == Kids(p)[i + 1]
            IN  (T(p).class = "block" /\ BlockWithBox(a) /\ BlockWithBox(b)) =>
                    BorderBoxTop(b) - BorderBoxBottom(a)
                        = Max(box[a].margin.bottom, box[b].margin.top)

\* the children of p that are in flow, in order
InFlowKids(p) == SelectSeq(Kids(p), LAMBDA k : ~is_float(k))
OwnMarginTop(n) == specified_or_zero(from_style(T(n).style.margin_top, base[n].w))

\* C8: after the assign_height of a non-root parent with zero top border and padding
\* whose first in-flow child has a larger top margin than the parent's own, the
\* parent's box margin-top is the child's top margin and the child's border-box top is
\* at y = 0 from the top of the parent's content box
C8_ParentTakesFirstChildMargin ==
    (pc.pass = "done" /\ pc.runs = 1) =>
        \A p \in Nodes :
            (/\ T(p).class = "block" /\ HasBox(p) /\ ~T(p).is_root
             /\ box[p].border.top = 0 /\ box[p].padding.top = 0
             /\ InFlowKids(p) # <<>>
             /\ BlockWithBox(InFlowKids(p)[1])
             /\ box[InFlowKids(p)[1]].margin.top > OwnMarginTop(p))
            => /\ box[p].margin.top = box[InFlowKids(p)[1]].margin.top
               /\ BorderBoxTop(InFlowKids(p)[1]) - ContentBoxTop(p) = 0

\* ---------------------------------------------------------------------------------
\* build_display_list

Rect(x, y, w, h) == [x |-> x, y |-> y, w |-> w, h |-> h]

\* geom Rect::intersects: four strict comparisons of the edges
Intersects(a, b) ==
    /\ a.x < b.x + b.w
    /\ b.x < a.x + a.w
    /\ a.y < b.y + b.h
    /\ b.y < a.y + a.h

\* Rect(self.base.abs_position, self.base.position.size)
abs_rect(L, n) == Rect(L.base[n].absx, L.base[n].absy, L.base[n].w, L.base[n].h)

\* Box::build_display_list: the box's items, painted at the offset it is given
Box_build_display_list(n, ox, oy) ==
    IF HasBox(n) THEN << [flow |-> n, x |-> ox, y |-> oy] >> ELSE <<>>

\* child_base.abs_position = offset + child_base.position.origin, for every child
set_kids_abs_position(L, n, ox, oy) ==
    [L EXCEPT !.base = [k \in DOMAIN @ |->
        IF k \in Range(Kids(n))
        THEN [@[k] EXCEPT !.absx = ox + L.base[k].x, !.absy = oy + L.base[k].y]
        ELSE @[k]]]

Culled(L) == [L |-> L, items |-> <<>>, ret |-> TRUE]

\* build_display_list_float that goes on from abs_position without rel_pos
build_display_list_float_no_rel_pos(L, n, dirty) ==
    IF ~Intersects(abs_rect(L, n), dirty)
    THEN Culled(L)
    ELSE [L |-> set_kids_abs_position(L, n, L.base[n].absx, L.base[n].absy),
          items |-> Box_build_display_list(n, L.base[n].absx, L.base[n].absy),
          ret |-> FALSE]

build_display_list_float(L, n, dirty) ==
    IF ~Intersects(abs_rect(L, n), dirty)
    THEN Culled(L)
    ELSE [L |-> set_kids_abs_position(L, n, L.base[n].absx + L.flt[n].rel_x,
                                            L.base[n].absy + L.flt[n].rel_y),
          items |-> Box_build_display_list(n, L.base[n].absx + L.flt[n].rel_x,
                                              L.base[n].absy + L.flt[n].rel_y),
          ret |-> FALSE]

\* build_display_list_block without the test against the dirty rect
build_display_list_block_no_cull(L, n, dirty) ==
    IF is_float(n)
    THEN build_display_list_float(L, n, dirty)
    ELSE [L |-> set_kids_abs_position(L, n, L.base[n].absx, L.base[n].absy),
          items |-> Box_build_display_list(n, L.base[n].absx, L.base[n].absy),
          ret |-> FALSE]

build_display_list_block(L, n, dirty) ==
    IF is_float(n)
    THEN build_display_list_float(L, n, dirty)
    ELSE IF ~Intersects(abs_rect(L, n), dirty)
    THEN Culled(L)
    ELSE [L |-> set_kids_abs_position(L, n, L.base[n].absx, L.base[n].absy),
          items |-> Box_build_display_list(n, L.base[n].absx, L.base[n].absy),
          ret |-> FALSE]

\* InlineFlow::build_display_list: the same test, then the boxes of the lines; an
\* inline flow has no children to go on with
InlineFlow_build_display_list(L, n, dirty) ==
    IF ~Intersects(abs_rect(L, n), dirty)
    THEN Culled(L)
    ELSE [L |-> L,
          items |-> Box_build_display_list(n, L.base[n].absx, L.base[n].absy),
          ret |-> TRUE]

\* the pre-order traversal: a flow that returned true is not descended into. Every
\* call is logged with the rect it tested, what it returned and what it emitted
Painted(n, r) ==
    /\ base' = r.L.base
    /\ dl' = Append(dl, [flow |-> n, abs_rect |-> abs_rect(Cur, n),
                         ret |-> r.ret, items |-> r.items])
    /\ pc' = Advance(IF r.ret
                     THEN SelectSeq(Tail(pc.todo), LAMBDA k : k \notin Descendants(n))
                     ELSE Tail(pc.todo), r.L)
    /\ UNCHANGED <<tree, box, flt, cols, snap, failed, hz>>

Block_build_display_list ==
    /\ Visiting("paint", {"block"})
    /\ Painted(Head(pc.todo), build_display_list_block(Cur, Head(pc.todo), tree.dirty))

Other_build_display_list ==
    /\ Visiting("paint", {"inline"})
    /\ Painted(Head(pc.todo), InlineFlow_build_display_list(Cur, Head(pc.todo), tree.dirty))

\* dirty rects: the whole screen, the zero rect, an empty rect inside the screen, and
\* strips that leave some of the flows outside
DirtyRects ==
    { Rect(0, 0, MaxAvail, MaxAvail), Rect(0, 0, 0, 0), Rect(1, 1, 0, 0),
      Rect(0, 0, MaxAvail, 1), Rect(0, 2, MaxAvail, 1), Rect(3, 0, 1, MaxAvail) }

PaintTrees ==
    { [t EXCEPT !.dirty = d] :
        t \in { h \in HeightTrees : /\ h.nodes[2].style.margin_top = LP_Length(0)
                                    /\ h.nodes[3].style.margin_bottom = LP_Length(0) },
        d \in DirtyRects }

InitPaint == \E t \in PaintTrees : InitTree(t, "paint")

NextPaint ==
    \/ Block_bubble_widths
    \/ Other_bubble_widths
    \/ Block_assign_widths
    \/ Other_assign_widths
    \/ Block_assign_height
    \/ Other_assign_height
    \/ Block_build_display_list
    \/ Other_build_display_list

SpecPaint == InitPaint /\ [][NextPaint]_vars

IsEmptyRect(r) == r.w = 0 \/ r.h = 0
\* the calls of build_display_list on the flow classes of this module
FlowCalls == {i \in DOMAIN dl : T(dl[i].flow).class \in {"block", "table_row", "table_wrapper"}}
CullsDisjoint ==
    \A i \in FlowCalls :
        ~Intersects(dl[i].abs_rect, tree.dirty) => (dl[i].ret = TRUE /\ dl[i].items = <<>>)
NothingEmitted == \A i \in DOMAIN dl : dl[i].items = <<>>

----------------------------------------------------------------------------
(* Floats in the width pass *)

\*   1 root --- 2 floated block --- 3 inline
FloatWidthTrees ==
    { Tree(<< Root(<<2>>),
              [Flow("block", <<3>>) EXCEPT !.float = "left",
                                           !.style.width = w,
                                           !.style.margin_left = ml,
                                           !.style.margin_right = mr,
                                           !.box_min = bx, !.box_pref = bx],
              Leaf("inline", mp) >>, sw, MaxAvail) :
        w \in {LPA_Auto, LP_Length(1)}, ml \in MarginStyles, mr \in MarginStyles,
        bx \in {0, 1}, mp \in MinPref, sw \in 0..MaxAvail }

InitFloatWidths == \E t \in FloatWidthTrees : InitTree(t, "widths")

NextFloatWidths ==
    \/ Block_bubble_widths
    \/ Other_bubble_widths
    \/ Block_assign_widths
    \/ Other_assign_widths

SpecFloatWidths == InitFloatWidths /\ [][NextFloatWidths]_vars

\* a floated block with a box and width: auto that assign_widths has visited
FloatAutoWidth(n) ==
    /\ T(n).class = "block" /\ is_float(n) /\ HasBox(n) /\ WidthsDone(n)
    /\ T(n).style.width.k = "auto"

\* C11: the used width of a floated block with width: auto is
\* max(min_width, min(pref_width, remaining_width)), which is also
\* min(pref_width, max(min_width, remaining_width)) for the min/pref pairs that
\* bubble_widths produces, and auto horizontal margins of the float become 0
C11_FloatShrinkToFit ==
    \A n \in Nodes :
        FloatAutoWidth(n) =>
            LET remaining_width == flt[n].containing_width
                mn == base[n].min_width
                pf == base[n].pref_width
            IN  /\ UsedWidth(n) = Max(mn, Min(pf, remaining_width))
                /\ UsedWidth(n) = Min(pf, Max(mn, remaining_width))
                /\ T(n).style.margin_left.k = "auto" => box[n].margin.left = 0
                /\ T(n).style.margin_right.k = "auto" => box[n].margin.right = 0

\* a float laid out in a containing block narrower than its preferred width and wider
\* than its minimum width, with an auto margin
C11_Witness ==
    /\ pc.pass = "done"
    /\ FloatAutoWidth(2)
    /\ base[2].min_width < flt[2].containing_width
    /\ flt[2].containing_width < base[2].pref_width
    /\ T(2).style.margin_left.k = "auto"

----------------------------------------------------------------------------
(* The float context handed through the height pass *)

NoFloatedDescendant(n) == \A d \in Descendants(n) : ~is_float(d)

\* what a float context shows to the flow that holds it: the floats at their
\* positions in the flow's frame
Seen(fc) ==
    [valid |-> fc.valid,
     floats |-> [i \in 1..Len(fc.floats) |->
                    [fc.floats[i] EXCEPT !.x = @ + fc.offx, !.y = @ + fc.offy]]]

\* a non-floated BlockFlow without floated descendants
PlainBlock(n) == T(n).class = "block" /\ ~is_float(n) /\ NoFloatedDescendant(n)

\* C12 as stated: after the height pass every non-floated flow without floated
\* descendants has floats_out equal to floats_in, whether assign_height or
\* assign_height_inorder processed it
C12_FloatsOutIsFloatsIn ==
    HeightsDone =>
        \A n \in Nodes : PlainBlock(n) => Seen(base[n].floats_out) = Seen(base[n].floats_in)

\* C12: after the height pass a non-floated block without floated descendants that
\* assign_height processed has floats_out equal to floats_in; one that
\* assign_height_inorder processed has the floats of floats_in in floats_out, at the same
\* horizontal offset, moved only vertically
C12_FloatsPassThrough ==
    HeightsDone =>
        \A n \in Nodes : PlainBlock(n) =>
            IF base[n].inorder
            THEN \E dy \in (0 - 4 * MaxAvail)..0 :
                    base[n].floats_out = translate(base[n].floats_in, 0, dy)
            ELSE base[n].floats_out = base[n].floats_in

\* a block after a floated sibling: the float it was handed is in its floats_out, seen
\* from further down
C12_Witness ==
    /\ HeightsDone
    /\ PlainBlock(4) /\ base[4].inorder
    /\ base[4].floats_in.floats # <<>>
    /\ Seen(base[4].floats_out) # Seen(base[4].floats_in)

----------------------------------------------------------------------------
(* SpecRows: the three passes over a root with two blocks, each in flow or floated,
   the second with or without a top and left margin, followed by a table row of two
   cells, the second with or without a box; the row is in flow, floated or fixed and
   its height property auto or a length; the height pass may then run again *)

CellLeaf(w, h, has_box) == [Leaf("table_cell", <<0, MaxAu>>) EXCEPT !.style.width = w, !.leaf.height = h, !.has_box = has_box]

\*   1 root -+- 2 block --- 5 inline
\*           +- 3 block --- 6 inline
\*           +- 4 row  -+-- 7 cell
\*                      +-- 8 cell
RowTrees ==
    { Tree(<< Root(<<2, 3, 4>>),
              [Flow("block", <<5>>) EXCEPT !.float = af],
              [Flow("block", <<6>>) EXCEPT !.float = bf,
                                           !.style.margin_top = LP_Length(bm),
                                           !.style.margin_left = LP_Length(bm)],
              [Flow("table_row", <<7, 8>>) EXCEPT
                   !.float = IF rk = "float" THEN "left" ELSE "none",
                   !.is_fixed = (rk = "fixed"),
                   !.style.height = rh],
              TextLeaf,
              TextLeaf,
              CellLeaf(w1, h1, TRUE),
              CellLeaf(w2, h2, cb) >>, MaxAvail, MaxAvail) :
        af \in {"none", "left"}, bf \in {"none", "left"}, bm \in {0, 1},
        rk \in {"flow", "float", "fixed"}, rh \in {LPA_Auto, LP_Length(1)},
        w1 \in {LPA_Auto, LP_Length(1), LP_Length(MaxAu)}, w2 \in {LPA_Auto, LP_Length(1)},
        h1 \in AuVals, h2 \in {0, MaxAu}, cb \in BOOLEAN }

InitRows == \E t \in RowTrees : InitTree(t, "heights")

NextRows ==
    \/ Block_bubble_widths
    \/ TableRow_bubble_widths
    \/ Other_bubble_widths
    \/ Block_assign_widths
    \/ TableRow_assign_widths
    \/ Other_assign_widths
    \/ Block_assign_height
    \/ TableRow_assign_height
    \/ TableCell_assign_height
    \/ Other_assign_height
    \/ Relayout_heights

SpecRows == InitRows /\ [][NextRows]_vars

RECURSIVE InorderVisited(_)
\* the flows on which assign_height_inorder runs inside the in-order loop over the
\* children of n: its children, and below those that are not floated, theirs
InorderVisited(n) ==
    UNION { {k} \cup (IF ~is_float(k) /\ T(k).class \in {"block", "table_row"}
                      THEN InorderVisited(k) ELSE {}) : k \in Range(Kids(n)) }

\* assign_height of flow n starts an in-order traversal
StartsInorder(n) ==
    /\ T(n).class \in {"block", "table_row"}
    /\ base[n].num_floats > 0
    /\ is_float(n) \/ (T(n).class = "block" /\ T(n).is_root)

\* the flows that run the in-order loop over their children in the step about to be taken
InorderParents ==
    IF ~failed /\ pc.pass = "heights" /\ pc.todo # <<>> /\ StartsInorder(Head(pc.todo))
    THEN {p \in {Head(pc.todo)} \cup InorderVisited(Head(pc.todo)) :
            /\ Kids(p) # <<>>
            /\ p = Head(pc.todo) \/ (~is_float(p) /\ T(p).class \in {"block", "table_row"})}
    ELSE {}

\* the floats of flow p as the step leaves them, moved to the origin of p's content:
\* left_offset and top_offset are those initialize_offsets finds on entry, zero in a row
TranslatedFloatsIn(p) ==
    IF T(p).class = "table_row" THEN translate(base'[p].floats_in, 0, 0)
    ELSE LET io == initialize_offsets([base |-> base', box |-> box], p, FALSE)
         IN  translate(base'[p].floats_in, 0 - io.left_offset, 0 - io.top_offset)

\* each later child starts from the floats its left sibling handed out
SiblingsChained(p) ==
    \A i \in 2..Len(Kids(p)) : base'[Kids(p)[i]].floats_in = base'[Kids(p)[i - 1]].floats_out

\* C13 as stated: in an in-order height traversal the first child's floats_in is the
\* parent's floats_in translated by (-left_offset, -top_offset), whether or not the
\* parent is floated, and every later child's floats_in is its left sibling's floats_out
C13_FirstChildSeesParentFloats ==
    [][\A p \in InorderParents :
          /\ base'[Kids(p)[1]].floats_in = TranslatedFloatsIn(p)
          /\ SiblingsChained(p)]_vars

\* C13: in an in-order height traversal the first child of a flow that is not floated
\* gets the parent's floats_in translated by (-left_offset, -top_offset), the first child
\* of a floated flow gets an empty FloatContext sized for the float's floated children,
\* and every later child's floats_in is the floats_out its left sibling's completed
\* assign_height_inorder wrote
C13_InorderThreading ==
    [][\A p \in InorderParents :
          /\ base'[Kids(p)[1]].floats_in =
                 IF is_float(p) THEN FloatContext_new(flt[p].floated_children)
                 ELSE TranslatedFloatsIn(p)
          /\ SiblingsChained(p)]_vars

\* both blocks floated and the row in order: the second float starts its child from an
\* empty context although it was handed the first float, the row's first cell starts
\* from the row's floats, and each sibling from what its left sibling handed out
C13_Witness ==
    /\ HeightsDone
    /\ is_float(2) /\ is_float(3) /\ ~is_float(4)
    /\ base[3].floats_in.floats # <<>>
    /\ base[6].floats_in = FloatContext_new(flt[3].floated_children)
    /\ base[3].floats_in = base[2].floats_out
    /\ base[4].floats_in = base[3].floats_out
    /\ Len(base[4].floats_in.floats) = 2
    /\ base[7].floats_in = translate(base[4].floats_in, 0, 0)
    /\ base[8].floats_in = base[7].floats_out
    /\ base[8].floats_in # base[7].floats_in

\* the flows whose floats_in is read and whose floats_out is written by the step about
\* to be taken, when it is a step of the height pass: the flow assign_height runs on,
\* unless it is floated, and the flows its in-order traversal visits
FloatsTouched ==
    IF ~failed /\ pc.pass = "heights" /\ pc.todo # <<>>
    THEN (IF is_float(Head(pc.todo)) THEN {} ELSE {Head(pc.todo)}) \cup
         (IF StartsInorder(Head(pc.todo)) THEN InorderVisited(Head(pc.todo)) ELSE {})
    ELSE {}

\* C14: no step of a height pass, in order or not, hands the Invalid FloatContext to
\* translate, clearance, add_float or last_float_pos (each such use is a failure), and
\* none stores it: the floats_in and floats_out of every flow a step visits are valid
\* contexts after it, and so is every floats_in and floats_out a step changes
C14_InvalidNeverUsedNorStored ==
    [][pc.pass = "heights" =>
          /\ ~failed'
          /\ \A n \in FloatsTouched : base'[n].floats_in.valid /\ base'[n].floats_out.valid
          /\ \A n \in Nodes :
                /\ base'[n].floats_in # base[n].floats_in => base'[n].floats_in.valid
                /\ base'[n].floats_out # base[n].floats_out => base'[n].floats_out.valid]_vars

\* a height pass has run in order over a float and a row that was handed the float,
\* and every flow of the tree holds valid contexts
C14_Witness ==
    /\ HeightsDone
    /\ is_float(2) /\ ~is_float(3) /\ ~is_float(4)
    /\ base[4].inorder
    /\ base[4].floats_in.floats # <<>>
    /\ \A n \in Nodes : base[n].floats_in.valid /\ base[n].floats_out.valid

\* a table row laid out by assign_height_table_base: neither floated nor fixed
PlainRow(r) == T(r).class = "table_row" /\ ~is_float(r) /\ ~T(r).is_fixed

\* the heights the cells of row r came with, as their own assign_height found them
CellHeights(r) == [i \in 1..Len(Kids(r)) |-> T(Kids(r)[i]).leaf.height]

\* C15: after assign_height on a table row that is not fixed, all its cells have the
\* same origin.y, the row is as high as its tallest cell unless its own height property
\* is specified, and every cell's box height and flow height is the row's final height
C15_CellsStretchToRowHeight ==
    HeightsDone =>
        \A r \in Nodes :
            PlainRow(r) =>
                /\ \A k \in Range(Kids(r)) : base[k].y = base[Kids(r)[1]].y
                /\ T(r).style.height.k = "auto" => base[r].h = MaxSeq(CellHeights(r))
                /\ \A k \in Range(Kids(r)) : box[k].h = base[r].h /\ base[k].h = base[r].h

\* the x at which TableRowFlow::assign_widths starts to lay out the cells of row r
RowXOffset(r) ==
    IF HasBox(r)
    THEN get_x_coord_and_new_width_if_fixed(r, tree.screen.width, base[r].w, offset(box[r]),
                                            T(r).is_fixed)[1]
    ELSE 0

\* C16: once assign_widths has run on a table row, col_widths holds an entry for each
\* of its cells, and the cells lie side by side from x_offset on: cell i is
\* col_widths[i] wide and starts where the widths of the columns before it end
C16_CellsLaidLeftToRight ==
    \A r \in Nodes :
        (T(r).class = "table_row" /\ WidthsDone(r)) =>
            /\ Len(cols[r].col_widths) >= Len(Kids(r))
            /\ \A i \in 1..Len(Kids(r)) :
                  /\ base[Kids(r)[i]].w = cols[r].col_widths[i]
                  /\ base[Kids(r)[i]].x =
                         RowXOffset(r) + SumSeq(SubSeq(cols[r].col_widths, 1, i - 1))

\* the floats the children of n reported
KidsNumFloats(n) == SumSeq([i \in 1..Len(Kids(n)) |-> base[Kids(n)[i]].num_floats])

\* C17: once bubble_widths has run on a block, a table row or a table wrapper, a
\* floated flow has num_floats = 1 and its children's total in floated_children, and
\* a flow that is not floated has the sum of its children's num_floats
C17_NumFloatsWritten ==
    \A n \in Nodes :
        (BubbleDone(n) /\ T(n).class \in {"block", "table_row", "table_wrapper"}) =>
            IF is_float(n)
            THEN base[n].num_floats = 1 /\ flt[n].floated_children = KidsNumFloats(n)
            ELSE base[n].num_floats = KidsNumFloats(n)

\* the step stored a FloatContext in flow n that n did not hold before
FloatsRewritten(n) ==
    base'[n].floats_in # base[n].floats_in \/ base'[n].floats_out # base[n].floats_out

\* C18: in a height pass assign_height_inorder runs on a flow only in a tree with a
\* floated flow, inside a traversal started by the root block with num_floats > 0 or by
\* a floated flow's assign_height over its own children: a step rewrites the floats of
\* flows other than the one assign_height runs on only then, and only of flows that
\* traversal visits; assign_height of any other block or table row runs the base that
\* is not in order, which copies floats_in to floats_out and leaves the other flows'
\* floats alone
C18_InorderOnlyWithFloats ==
    [][(pc.pass = "heights" /\ pc.todo # <<>>) =>
          LET h == Head(pc.todo)
              starts == is_float(h) \/ (T(h).is_root /\ base[h].num_floats > 0)
          IN  /\ \A n \in Nodes \ {h} :
                    FloatsRewritten(n) =>
                        /\ \E f \in Nodes : is_float(f)
                        /\ starts
                        /\ n \in InorderVisited(h)
              /\ (~starts /\ T(h).class \in {"block", "table_row"}) =>
                    /\ base'[h].floats_out = base[h].floats_in
                    /\ base'[h].floats_in = base[h].floats_in]_vars

\* a tree with one float, laid out in order from the root: the block after the float
\* and its inline child were handed the float, and the block handed it on moved
C18_Witness ==
    /\ HeightsDone
    /\ is_float(2) /\ ~is_float(3) /\ ~is_float(4)
    /\ base[1].num_floats = 1
    /\ base[3].inorder /\ base[6].inorder
    /\ base[6].floats_in.floats # <<>>
    /\ base[3].floats_out # base[3].floats_in

\* how far below the y of child a margin collapsing puts the next child b: a's flow
\* height less the part of the two adjoining margins that collapses
CollapsedStep(a, b) == base[a].h - Min(box[b].margin.top, box[a].margin.bottom)

\* C19: after assign_height on a fixed-position block, its children are where margin
\* collapsing put them, all moved down by the same top_offset: two adjacent in-flow
\* block children are as far apart as margin collapsing left them
C19_FixedShiftKeepsSpacing ==
    HeightsDone =>
        \A p \in Nodes : \A i \in 1..(Len(Kids(p)) - 1) :
            LET a == Kids(p)[i]
                b == Kids(p)[i + 1]
            IN  (T(p).class = "block" /\ T(p).is_fixed /\ HasBox(p) /\
                 BlockWithBox(a) /\ BlockWithBox(b)) =>
                    base[b].y - base[a].y = CollapsedStep(a, b)

\* C20: a step of assign_widths on a block or a table row that completes sets the
\* in-order bit of every child to (parent's in-order bit) or (parent's num_floats > 0),
\* the parent's bit being the one the step leaves, cleared if the parent is floated;
\* a child whose bit is false gets an empty FloatContext as floats_in, a child whose
\* bit is true keeps the floats_in it had
C20_InorderBitPropagates ==
    [][(pc.pass = "widths" /\ pc.todo # <<>> /\ ~failed' /\
        T(Head(pc.todo)).class \in {"block", "table_row"}) =>
          LET p == Head(pc.todo)
              has_inorder_children == base'[p].inorder \/ base[p].num_floats > 0
          IN  /\ is_float(p) => ~base'[p].inorder
              /\ \A k \in Range(Kids(p)) :
                    /\ base'[k].inorder = has_inorder_children
                    /\ base'[k].floats_in = IF has_inorder_children THEN base[k].floats_in
                                            ELSE FloatContext_new(0)]_vars

\* the width pass is over in a tree whose first block is floated and whose row is not:
\* the float's own bit is cleared, its child and the row and its cells are in order
\* and still hold the floats_in they were built with
C20_Witness ==
    /\ pc.pass = "heights" /\ pc.runs = 0 /\ ~failed
    /\ is_float(2) /\ ~is_float(3) /\ ~is_float(4)
    /\ ~base[2].inorder /\ base[5].inorder /\ base[5].floats_in = Invalid
    /\ base[3].inorder /\ base[4].inorder
    /\ base[7].inorder /\ base[7].floats_in = Invalid

----------------------------------------------------------------------------
(* SpecCollapse: the three passes up to assign_height over a block P that is in flow,
   floated or fixed and has own top and bottom margins and possibly a bottom border;
   P has no children, or a block A followed by a block B with margins, by a block
   without a box, or by a line of text; the height pass may then run again *)

\* the parent block P of CollapseTrees
CollapseParent(kids, pk, m, pmb, pbb) ==
    [Flow("block", kids) EXCEPT !.float = IF pk = "float" THEN "left" ELSE "none",
                                !.is_fixed = (pk = "fixed"),
                                !.style.margin_top = LP_Length(m),
                                !.style.margin_bottom = LP_Length(pmb),
                                !.style.border.bottom = pbb]

\* the first child A of CollapseTrees
CollapseFirst(m, amb) ==
    [Flow("block", <<5>>) EXCEPT !.style.margin_top = LP_Length(m),
                                 !.style.margin_bottom = LP_Length(amb)]

\*   1 root --- 2 block P          1 root --- 2 block P -+- 3 block A --- 5 inline
\*                                                       +- 4 last child
\* the last child being a block B over 6 inline, a block without a box (BlockFlow::new)
\* over 6 inline, or an inline flow
CollapseTrees ==
    LET P == { <<pk, m, pmb, pbb>> \in {"flow", "float", "fixed"} \X {0, 1} \X {0, MaxAu} \X {0, 1} : TRUE }
    IN  { Tree(<< Root(<<2>>), CollapseParent(<<>>, p[1], p[2], p[3], p[4]) >>,
               MaxAvail, MaxAvail) : p \in P }
        \cup
        { Tree(<< Root(<<2>>), CollapseParent(<<3, 4>>, p[1], p[2], p[3], p[4]),
                  CollapseFirst(p[2], amb),
                  [Flow("block", <<6>>) EXCEPT !.style.margin_top = LP_Length(bmt),
                                               !.style.margin_bottom = LP_Length(bmb)],
                  TextLeaf, TextLeaf >>, MaxAvail, MaxAvail) :
            p \in P, amb \in {0, 1}, bmt \in {0, 1}, bmb \in {0, 1} }
        \cup
        { Tree(<< Root(<<2>>), CollapseParent(<<3, 4>>, p[1], p[2], p[3], p[4]),
                  CollapseFirst(p[2], amb),
                  [Flow("block", <<6>>) EXCEPT !.has_box = FALSE],
                  TextLeaf, TextLeaf >>, MaxAvail, MaxAvail) :
            p \in P, amb \in {0, 1} }
        \cup
        { Tree(<< Root(<<2>>), CollapseParent(<<3, 4>>, p[1], p[2], p[3], p[4]),
                  CollapseFirst(p[2], amb),
                  TextLeaf, TextLeaf >>, MaxAvail, MaxAvail) :
            p \in P, amb \in {0, 1} }

\* the passes and steps of SpecHeights, over CollapseTrees
SpecCollapse == (\E t \in CollapseTrees : InitTree(t, "heights")) /\ [][NextHeights]_vars

OwnMarginBottom(n) == specified_or_zero(from_style(T(n).style.margin_bottom, base[n].w))
\* the block children of p that are in flow and have a box, in order
BoxedKids(p) == SelectSeq(Kids(p), BlockWithBox)
LastBoxedKid(p) == BoxedKids(p)[Len(BoxedKids(p))]
\* a non-root block with a box, no bottom border and no bottom padding that has an
\* in-flow child with a box
BottomOpen(p) ==
    /\ T(p).class = "block" /\ HasBox(p) /\ ~T(p).is_root
    /\ box[p].border.bottom = 0 /\ box[p].padding.bottom = 0
    /\ BoxedKids(p) # <<>>
\* no inline flow with a height comes after child c of p
NoLineAfter(p, c) ==
    \A i, j \in 1..Len(Kids(p)) :
        (Kids(p)[i] = c /\ i < j) =>
            ~(T(Kids(p)[j]).class = "inline" /\ base[Kids(p)[j]].h > 0)

----------------------------------------------------------------------------
(* SpecFloatPaint: the four passes over three sibling blocks, each in flow or floated,
   the third with a top margin and a child block that is in flow or floated, so that
   floats stand beside and below other flows and get a rel_pos that is not zero *)

\*   1 root -+- 2 block --- 6 inline
\*           +- 3 block --- 7 inline
\*           +- 4 block --- 5 block --- 8 inline
FloatPaintTrees ==
    { [Tree(<< Root(<<2, 3, 4>>),
               [Flow("block", <<6>>) EXCEPT !.float = af],
               [Flow("block", <<7>>) EXCEPT !.float = ff],
               [Flow("block", <<5>>) EXCEPT !.float = bf, !.style.margin_top = LP_Length(bm)],
               [Flow("block", <<8>>) EXCEPT !.float = gf],
               TextLeaf, TextLeaf, TextLeaf >>, MaxAvail, MaxAvail) EXCEPT !.dirty = d] :
        af \in {"none", "left"}, ff \in {"none", "left"}, bf \in {"none", "left"},
        gf \in {"none", "left"}, bm \in {0, 1}, d \in DirtyRects }

\* the passes and steps of SpecPaint, over FloatPaintTrees
SpecFloatPaint == (\E t \in FloatPaintTrees : InitTree(t, "paint")) /\ [][NextPaint]_vars

\* the proper ancestors of flow n
ProperAncestors(n) == {a \in Nodes : n \in Descendants(a)}
\* build_display_list was called on flow a and went on to its children
WentDeeper(a) == \E i \in DOMAIN dl : dl[i].flow = a /\ ~dl[i].ret
ParentOf(n) == CHOOSE p \in Nodes : n \in Range(Kids(p))
RelX(a) == IF is_float(a) THEN flt[a].rel_x ELSE 0
RelY(a) == IF is_float(a) THEN flt[a].rel_y ELSE 0
RECURSIVE PathX(_)
\* the root's abs_position plus position.origin of every flow from below the root down
\* to n plus rel_pos of every floated proper ancestor of n
PathX(n) ==
    IF T(n).is_root THEN base[n].absx
    ELSE PathX(ParentOf(n)) + RelX(ParentOf(n)) + base[n].x
RECURSIVE PathY(_)
PathY(n) ==
    IF T(n).is_root THEN base[n].absy
    ELSE PathY(ParentOf(n)) + RelY(ParentOf(n)) + base[n].y

\* C22: once the display list is built, every flow all of whose proper ancestors were
\* visited and not culled has abs_position = the root's abs_position + the sum of
\* position.origin along the path from the root down to it + rel_pos of every floated
\* proper ancestor, and a floated flow that painted its box painted it at
\* abs_position + its own rel_pos
C22_AbsPositionIsPathSum ==
    (pc.pass = "done" /\ pc.last = "paint") =>
        /\ \A n \in Nodes :
              (\A a \in ProperAncestors(n) : WentDeeper(a)) =>
                  /\ base[n].absx = PathX(n)
                  /\ base[n].absy = PathY(n)
        /\ \A i \in DOMAIN dl :
              (is_float(dl[i].flow) /\ dl[i].items # <<>>) =>
                  /\ dl[i].items[1].x = base[dl[i].flow].absx + flt[dl[i].flow].rel_x
                  /\ dl[i].items[1].y = base[dl[i].flow].absy + flt[dl[i].flow].rel_y

\* the display list is built; a block that is floated beside an earlier float, so that
\* its rel_pos is not zero, was not culled, painted its box at abs_position + rel_pos,
\* and its floated child is placed from there
C22_Witness ==
    /\ pc.pass = "done" /\ pc.last = "paint" /\ ~failed
    /\ is_float(4) /\ is_float(5) /\ flt[4].rel_x > 0
    /\ WentDeeper(4)
    /\ \E i \in DOMAIN dl :
          /\ dl[i].flow = 4 /\ dl[i].items # <<>>
          /\ dl[i].items[1].x = base[4].absx + flt[4].rel_x
    /\ base[5].absx = base[4].absx + flt[4].rel_x + base[5].x
    /\ base[5].absx > base[5].x

\* the horizontal and the non-content geometry of flow n in layout L: the box's border,
\* padding, left and right margins, position.origin.x and position.size.width, and the
\* flow's position.origin.x and position.size.width
HorizontalGeometry(L, n) ==
    [border |-> L.box[n].border, padding |-> L.box[n].padding,
     margin_left |-> L.box[n].margin.left, margin_right |-> L.box[n].margin.right,
     box_x |-> L.box[n].x, box_w |-> L.box[n].w,
     x |-> L.base[n].x, w |-> L.base[n].w]
\* what a height step may write in flow n: the box's top and bottom margins, y and
\* height, the flow's y and height, its floats and rel_pos
WithoutVertical(L, n) ==
    [base |-> [L.base[n] EXCEPT !.y = 0, !.h = 0, !.floats_in = Invalid, !.floats_out = Invalid],
     box |-> [L.box[n] EXCEPT !.y = 0, !.h = 0, !.margin.top = 0, !.margin.bottom = 0],
     flt |-> [L.flt[n] EXCEPT !.rel_x = 0, !.rel_y = 0],
     cols |-> L.cols[n]]

\* C23: a step of the height pass on a block flow (assign_height, and the
\* assign_height_inorder calls it makes on the flows below) leaves every flow's box
\* border, padding, margin.left, margin.right, position.origin.x and
\* position.size.width and the flow's position.origin.x and position.size.width
\* unchanged; nothing but the top and bottom margins, y, heights, floats and rel_pos
\* is written
C23_HeightPassKeepsHorizontal ==
    [][(pc.pass = "heights" /\ pc.todo # <<>> /\ T(Head(pc.todo)).class = "block") =>
          \A n \in Nodes :
              /\ HorizontalGeometry([base |-> base', box |-> box'], n)
                     = HorizontalGeometry(Cur, n)
              /\ WithoutVertical([base |-> base', box |-> box', flt |-> flt', cols |-> cols'], n)
                     = WithoutVertical(Cur, n)]_vars

\* the height pass is over in a tree whose block P has a top border and whose first
\* child is floated: the blocks have their width and a height, P kept its border
C23_Witness ==
    /\ HeightsDone /\ ~failed
    /\ is_float(3)
    /\ box[2].border.top = 1 /\ box[2].w = MaxAvail /\ base[2].w = MaxAvail
    /\ box[2].h > 0 /\ box[4].h > 0 /\ base[4].y > 0

\* C24: after the parent's assign_height, a non-floated block child without a box is
\* placed at the previous sibling's y plus that sibling's flow height, nothing being
\* subtracted from cur_y for it, whatever siblings with boxes come before it
C24_BoxlessChildNotCollapsed ==
    (pc.pass = "done" /\ pc.runs = 1) =>
        \A p \in Nodes : \A i \in 2..Len(Kids(p)) :
            LET k == Kids(p)[i]
                prev == Kids(p)[i - 1]
            IN  (T(p).class = "block" /\ T(k).class = "block" /\ ~is_float(k) /\ ~HasBox(k))
                    => base[k].y = base[prev].y + base[prev].h

\* C25: after assign_height, a non-root block that is not fixed, has height: auto and
\* whose margins and children's flow heights are all non-negative has a non-negative
\* border-box height and a non-negative content height (the border-box height less
\* its borders and padding), also when it has no children
C25_AutoHeightNonNegative ==
    (pc.pass = "done" /\ pc.runs = 1) =>
        \A p \in Nodes :
            (/\ T(p).class = "block" /\ HasBox(p) /\ ~T(p).is_root /\ ~T(p).is_fixed
             /\ T(p).style.height = LPA_Auto
             /\ box[p].margin.top >= 0 /\ box[p].margin.bottom >= 0
             /\ \A k \in Range(Kids(p)) : base[k].h >= 0)
            => /\ box[p].h >= 0
               /\ box[p].h - (box[p].border.top + box[p].border.bottom
                              + box[p].padding.top + box[p].padding.bottom) >= 0

----------------------------------------------------------------------------
(* SpecRebubble: bubble_widths over a table row with two cells, the second with or
   without a box; the pass may then run again over the unchanged tree *)

\* the layout task runs the bubble_widths traversal again on the unchanged tree;
\* pc.runs counts the passes that were started again
Relayout_bubble_widths ==
    /\ ~failed
    /\ pc.pass = "done"
    /\ pc.last = "bubble"
    /\ pc.runs + 1 < MaxBubbleRuns
    /\ pc' = [pc EXCEPT !.pass = "bubble", !.todo = StartTodo("bubble", Cur),
                        !.runs = @ + 1]
    /\ UNCHANGED <<tree, base, box, flt, cols, dl, snap, failed, hz>>

\*   1 root --- 2 table row -+- 3 cell
\*                           +- 4 cell
RebubbleTrees ==
    { Tree(<< Root(<<2>>),
              [Flow("table_row", <<3, 4>>) EXCEPT !.float = rf],
              [Leaf("table_cell", c1) EXCEPT !.style.width = LP_Length(1)],
              [Leaf("table_cell", c2) EXCEPT !.has_box = cb] >>, MaxAvail, MaxAvail) :
        rf \in {"none", "left"}, c1 \in MinPref, c2 \in MinPref, cb \in BOOLEAN }

NextRebubble ==
    \/ Block_bubble_widths
    \/ TableRow_bubble_widths
    \/ Other_bubble_widths
    \/ Relayout_bubble_widths

SpecRebubble == (\E t \in RebubbleTrees : InitTree(t, "bubble")) /\ [][NextRebubble]_vars

\* C26: after any number of bubble_widths passes over an unchanged tree, a table row's
\* col_min_widths and col_pref_widths hold exactly one entry per cell child and its
\* col_widths one entry per cell child that has a box
C26_OneEntryPerCell ==
    \A n \in Nodes :
        (T(n).class = "table_row" /\ BubbleDone(n) /\ pc.pass \in {"bubble", "done"}) =>
            /\ Len(cols[n].col_min_widths) = Len(Kids(n))
            /\ Len(cols[n].col_pref_widths) = Len(Kids(n))
            /\ Len(cols[n].col_widths) = Len(SelectSeq(Kids(n), HasBox))

\* C27: the column widths TableWrapperFlow.assign_widths hands to its inner table are
\* all non-negative and their sum does not exceed remaining_width, the wrapper's used
\* content width it gives the table as its width, whenever remaining_width >= 0
C27_ColumnsFitRemainingWidth ==
    \A n \in Nodes : \A t \in TableKids(n) :
        (T(n).class = "table_wrapper" /\ WidthsDone(n) /\ base[t].w >= 0) =>
            /\ \A i \in 1..Len(cols[t].col_widths) : cols[t].col_widths[i] >= 0
            /\ SumSeq(cols[t].col_widths) <= base[t].w

\* the rectangle in which the box of the floated flow of call i is painted: origin
\* abs_position + rel_pos, size position.size
PaintedRect(i) ==
    Rect(dl[i].abs_rect.x + flt[dl[i].flow].rel_x, dl[i].abs_rect.y + flt[dl[i].flow].rel_y,
         dl[i].abs_rect.w, dl[i].abs_rect.h)

\* C28: build_display_list on a floated flow returns true and emits nothing exactly
\* when the rectangle with origin abs_position + rel_pos and size position.size, in
\* which its box would be painted, does not intersect the dirty rect
C28_FloatCulledByPaintedRect ==
    \A i \in DOMAIN dl :
        is_float(dl[i].flow) =>
            ((dl[i].ret /\ dl[i].items = <<>>) <=> ~Intersects(PaintedRect(i), tree.dirty))

FloatedBlock(f) == T(f).class = "block" /\ is_float(f)

\* C29: no step writes the position.size.height of a floated block flow (a height step
\* on it or on a flow above it changes only its box's y and height, its floats and
\* rel_pos), and after the height pass the sibling that follows a floated child in a
\* parent that is not fixed is placed at the float's own y, less its collapsed top
\* margin if it is a block with a box: the float has not advanced cur_y
C29_FloatKeepsFlowHeight ==
    /\ [][\A f \in Nodes : FloatedBlock(f) =>
              /\ base'[f].h = base[f].h
              /\ pc.pass = "heights" =>
                    [base'[f] EXCEPT !.floats_in = Invalid, !.floats_out = Invalid, !.y = 0]
                      = [base[f] EXCEPT !.floats_in = Invalid, !.floats_out = Invalid, !.y = 0]]_vars
    /\ [](HeightsDone =>
            \A p \in Nodes : \A i \in 1..(Len(Kids(p)) - 1) :
                LET f == Kids(p)[i]
                    s == Kids(p)[i + 1]
                IN  (FloatedBlock(f) /\ ~T(p).is_fixed) =>
                        /\ base[f].h = 0
                        /\ ~BlockWithBox(s) => base[s].y = base[f].y
                        /\ BlockWithBox(s) => /\ base[s].y <= base[f].y
                                              /\ base[s].y >= base[f].y - box[s].margin.top)

\* the height pass is over: a floated first child got a box height, its flow height
\* is still zero, and the block after it starts at the float's y
C29_Witness ==
    /\ HeightsDone /\ ~failed
    /\ FloatedBlock(3) /\ ~is_float(2) /\ ~T(2).is_fixed
    /\ box[3].h > 0 /\ base[3].h = 0
    /\ base[4].y = base[3].y
    /\ box[2].h = box[4].h + box[4].margin.top

----------------------------------------------------------------------------
(* SpecWrapperFloats: the three passes up to assign_height over a block and a table
   wrapper side by side, the wrapper holding its inner table and a caption block;
   the block, the wrapper and the caption are each in flow or floated *)

\*   1 root -+- 2 block --- 5 inline
\*           +- 3 table wrapper -+- 4 inner table
\*                               +- 6 block (caption) --- 7 inline
WrapperFloatTrees ==
    { Tree(<< Root(<<2, 3>>),
              [Flow("block", <<5>>) EXCEPT !.float = af],
              [Flow("table_wrapper", <<4, 6>>) EXCEPT !.float = wf,
                                                     !.style.margin_top = LP_Length(wm)],
              Leaf("table", <<0, MaxAu>>),
              TextLeaf,
              [Flow("block", <<7>>) EXCEPT !.float = ff,
                                           !.style.margin_top = LP_Length(fm)],
              TextLeaf >>, MaxAvail, MaxAvail) :
        af \in {"none", "left"}, wf \in {"none", "left"}, ff \in {"none", "left"},
        wm \in {0, 1}, fm \in {0, 1} }

NextWrapperFloats ==
    \/ Block_bubble_widths
    \/ TableWrapper_bubble_widths
    \/ Other_bubble_widths
    \/ Block_assign_widths
    \/ TableWrapper_assign_widths
    \/ Other_assign_widths
    \/ Block_assign_height
    \/ TableWrapper_assign_height
    \/ Other_assign_height

SpecWrapperFloats ==
    (\E t \in WrapperFloatTrees : InitTree(t, "heights")) /\ [][NextWrapperFloats]_vars

\* the floated flows that are not nested inside another floated flow
OuterFloats == {f \in Nodes : is_float(f) /\ \A a \in ProperAncestors(f) : ~is_float(a)}

\* C30: in a height pass no context receives more floats than the n of the
\* FloatContext::new(n) its chain began with (a further add_float fails), and the chain
\* that began at the root with n = root.num_floats has received, when the pass is
\* over, exactly one float per floated flow that is not nested inside another float
C30_AddFloatWithinCapacity ==
    /\ ~failed
    /\ \A n \in Nodes :
          /\ base[n].floats_in.valid => Len(base[n].floats_in.floats) <= base[n].floats_in.cap
          /\ base[n].floats_out.valid => Len(base[n].floats_out.floats) <= base[n].floats_out.cap
    /\ HeightsDone =>
          /\ base[1].floats_out.valid
          /\ base[1].floats_out.cap = base[1].num_floats
          /\ Len(base[1].floats_out.floats) = Cardinality(OuterFloats)

====
